---- MODULE Spec2Model ----
\* A model of the DEP-11 generator's persistent cache (dep11/datacache.py) and of
\* the driver operations of dep11/generator.py that run on it.
\*
\* Text is modelled as it is stored: a str is a sequence of code points, a bytes
\* value is a sequence of byte values, and tobytes/str(.., 'utf-8') are the UTF-8
\* encoding and decoding. An LMDB table is a function from the keys present to
\* their values; txn.get of a missing key is None.
EXTENDS Integers, Sequences, FiniteSets, TLC

VARIABLES
    pkgdb,      \* table 'packages': package id -> b'ignore' | b'seen' | joined gids
    hintsdb,    \* table 'hints':    package id -> hints document
    datadb,     \* table 'metadata': global id  -> component document
    suitesdb,   \* table 'suites':   package id -> serialized set of suite names
    mediafs,    \* the directories that exist below the media root
    run,        \* the calls in progress, innermost first; <<>> between calls
    last,       \* the call that returned last: its name, arguments and result
    handle,     \* the DataCache object of the process: _opened, cache_dir, _dbenv
    driver      \* a run of the generator: its command, position, pool and tasks

tables == <<pkgdb, hintsdb, datadb, suitesdb>>
proc == <<handle, driver>>
vars == <<pkgdb, hintsdb, datadb, suitesdb, mediafs, run, last, handle, driver>>

----------------------------------------------------------------------------
\* Bounds of the model.

\* The longest component list handed to set_components.
MaxCpts == 2

----------------------------------------------------------------------------
\* Text and bytes.

\* '\n', the separator of the stored global-id list.
NL == 10
\* '/', the separator after the package name in a package id.
SLASH == 47

\* b'ignore'
IGNORE == <<105, 103, 110, 111, 114, 101>>
\* b'seen'
SEEN == <<115, 101, 101, 110>>

\* One code point (below 2048) as UTF-8.
Utf8Char(c) ==
    IF c < 128 THEN <<c>> ELSE <<192 + (c \div 64), 128 + (c % 64)>>

\* bytes(s, 'utf-8')
RECURSIVE tobytes(_)
tobytes(s) ==
    IF s = <<>> THEN <<>> ELSE Utf8Char(Head(s)) \o tobytes(Tail(s))

\* str(b, 'utf-8')
RECURSIVE tostr(_)
tostr(b) ==
    IF b = <<>> THEN <<>>
    ELSE IF Head(b) < 128 THEN <<Head(b)>> \o tostr(Tail(b))
    ELSE <<(b[1] - 192) * 64 + (b[2] - 128)>> \o tostr(SubSeq(b, 3, Len(b)))

\* sep.join(parts)
RECURSIVE join(_, _)
join(sep, parts) ==
    IF parts = <<>> THEN <<>>
    ELSE IF Len(parts) = 1 THEN parts[1]
    ELSE parts[1] \o sep \o join(sep, Tail(parts))

\* s.split(sep): one part more than there are separators.
RECURSIVE split(_, _)
split(s, sep) ==
    IF \A i \in 1..Len(s) : s[i] # sep THEN <<s>>
    ELSE LET i == CHOOSE i \in 1..Len(s) :
                      s[i] = sep /\ \A j \in 1..(i - 1) : s[j] # sep
         IN  <<SubSeq(s, 1, i - 1)>> \o split(SubSeq(s, i + 1, Len(s)), sep)

\* s.startswith(prefix)
startswith(s, prefix) ==
    Len(prefix) <= Len(s) /\ SubSeq(s, 1, Len(prefix)) = prefix

----------------------------------------------------------------------------
\* Python values. A result that may be None is a set: {} is None and {v} is v.

None == {}
Some(v) == {v}
TheVal(o) == CHOOSE v \in o : TRUE

\* "not x" for a result that is None or bytes/str/list: None and the empty
\* sequence are false.
Falsy(o) == o = None \/ o = Some(<<>>)

----------------------------------------------------------------------------
\* LMDB tables.

\* txn.get(key)
Get(db, key) == IF key \in DOMAIN db THEN Some(db[key]) ELSE None

\* txn.put(key, value)
Put(db, key, value) ==
    [k \in DOMAIN db \cup {key} |-> IF k = key THEN value ELSE db[k]]

\* txn.delete(key)
Delete(db, key) == [k \in DOMAIN db \ {key} |-> db[k]]

EmptyDb == [k \in {} |-> <<>>]

\* The environment: the four tables the cache operations read and write.
Env == [packages |-> pkgdb, hints |-> hintsdb, metadata |-> datadb,
        suites |-> suitesdb]

\* The tables after a call: the committed environment e becomes the state.
Commit(e) ==
    /\ pkgdb' = e.packages
    /\ hintsdb' = e.hints
    /\ datadb' = e.metadata
    /\ suitesdb' = e.suites

----------------------------------------------------------------------------
\* The handle. _dbenv is the path of the environment the handle holds, or None.

\* DataCache.__init__
new_handle == [_opened |-> FALSE, cache_dir |-> None, _dbenv |-> None]

\* open: the environment at cachedir is opened and the path recorded. An
\* environment the handle held before is neither closed nor kept.
open(h, cachedir) ==
    [_opened |-> TRUE, cache_dir |-> Some(cachedir), _dbenv |-> Some(cachedir)]

\* close that releases the environment and leaves _opened set.
close_keeps_opened(h) ==
    IF ~h._opened THEN h ELSE [h EXCEPT !._dbenv = None]

close(h) ==
    IF ~h._opened THEN h
    ELSE [h EXCEPT !._dbenv = None, !._opened = FALSE]

\* reopen. lmdb.open(None), on a handle that was never opened, raises a
\* TypeError and leaves the handle as it was.
reopen(h) ==
    IF h._opened THEN [h |-> h, err |-> None]
    ELSE IF h.cache_dir = None
    THEN [h |-> close(h), err |-> Some("TypeError")]
    ELSE [h |-> open(close(h), TheVal(h.cache_dir)), err |-> None]

\* No generator run is modelled: the cache calls come from anywhere.
no_driver == [pc |-> "none"]

----------------------------------------------------------------------------
\* The extraction collaborator's component records. A record carries its global
\* id, whether it has an ignore reason now, whether generating its document
\* raises one, its document, its hints so far and the hint generation adds when
\* it raises the ignore reason.

has_ignore_reason(cpt) == cpt.ignore

\* The document to_yaml_doc returns.
to_yaml_doc(cpt) == cpt.yaml

\* The component after to_yaml_doc ran on it.
after_yaml_doc(cpt) ==
    IF cpt.gen_ignore
    THEN [cpt EXCEPT !.ignore = TRUE, !.gen_ignore = FALSE,
                     !.hints = @ \o cpt.gen_hints]
    ELSE cpt

get_hints_yaml(cpt) == cpt.hints

----------------------------------------------------------------------------
\* Metadata table operations.

metadata_exists(e, global_id) ==
    Get(e.metadata, tobytes(global_id)) # None

get_metadata(e, global_id) ==
    LET d == Get(e.metadata, tobytes(global_id))
    IN  IF Falsy(d) THEN None ELSE Some(tostr(TheVal(d)))

set_metadata(e, global_id, yaml_data) ==
    [e EXCEPT !.metadata = Put(@, tobytes(global_id), tobytes(yaml_data))]

----------------------------------------------------------------------------
\* Package index operations.

set_package_ignore(e, pkgid) ==
    [e EXCEPT !.packages = Put(@, tobytes(pkgid), IGNORE)]

\* The reader that knows the 'ignore' sentinel only.
get_cpt_gids_for_pkg_no_seen(e, pkgid) ==
    LET cs_str == Get(e.packages, tobytes(pkgid))
    IN  IF Falsy(cs_str) THEN None
        ELSE IF tostr(TheVal(cs_str)) = IGNORE THEN None
        ELSE Some(split(tostr(TheVal(cs_str)), NL))

\* The read that returns the first id of the list only.
get_cpt_gids_for_pkg_first(e, pkgid) ==
    LET cs_str == Get(e.packages, tobytes(pkgid))
    IN  IF Falsy(cs_str) THEN None
        ELSE IF tostr(TheVal(cs_str)) = IGNORE \/ tostr(TheVal(cs_str)) = SEEN
        THEN None
        ELSE Some(<<split(tostr(TheVal(cs_str)), NL)[1]>>)

\* The sentinels are ASCII: the decoded record is compared with their code
\* points, which are their bytes.
get_cpt_gids_for_pkg(e, pkgid) ==
    LET cs_str == Get(e.packages, tobytes(pkgid))
    IN  IF Falsy(cs_str) THEN None
        ELSE IF tostr(TheVal(cs_str)) = IGNORE \/ tostr(TheVal(cs_str)) = SEEN
        THEN None
        ELSE Some(split(tostr(TheVal(cs_str)), NL))

\* The loop that ends at the first global id without a document.
RECURSIVE gmp_loop_to_first_gap(_, _)
gmp_loop_to_first_gap(e, gids) ==
    IF gids = <<>> THEN <<>>
    ELSE LET d == get_metadata(e, Head(gids))
         IN  IF Falsy(d) THEN <<>>
             ELSE TheVal(d) \o gmp_loop_to_first_gap(e, Tail(gids))

\* "for gid in gids": data grows by each document get_metadata returns.
RECURSIVE gmp_loop(_, _)
gmp_loop(e, gids) ==
    IF gids = <<>> THEN <<>>
    ELSE LET d == get_metadata(e, Head(gids))
         IN  (IF Falsy(d) THEN <<>> ELSE TheVal(d)) \o gmp_loop(e, Tail(gids))

get_metadata_for_pkg(e, pkgid) ==
    LET gids == get_cpt_gids_for_pkg(e, pkgid)
    IN  IF Falsy(gids) THEN None ELSE Some(gmp_loop(e, TheVal(gids)))

get_hints(e, pkgid) ==
    LET hints == Get(e.hints, tobytes(pkgid))
    IN  IF Falsy(hints) THEN hints ELSE Some(tostr(TheVal(hints)))

\* set_hints appending to the hints record instead of replacing it.
set_hints_appending(e, pkgid, hints_yml) ==
    LET old == Get(e.hints, tobytes(pkgid))
    IN  [e EXCEPT !.hints =
            Put(@, tobytes(pkgid),
                (IF old = None THEN <<>> ELSE TheVal(old)) \o tobytes(hints_yml))]

set_hints(e, pkgid, hints_yml) ==
    [e EXCEPT !.hints = Put(@, tobytes(pkgid), tobytes(hints_yml))]

is_ignored(e, pkgid) == Get(e.packages, tobytes(pkgid)) = Some(IGNORE)

package_exists(e, pkgid) == Get(e.packages, tobytes(pkgid)) # None

\* The pass that lists a global id only when it stored the document itself.
sc_component_skip_existing(st, cpt) ==
    LET store == ~has_ignore_reason(cpt) /\ ~metadata_exists(st.e, cpt.global_id)
    IN  [e |-> IF store THEN set_metadata(st.e, cpt.global_id, to_yaml_doc(cpt))
               ELSE st.e,
         gids |-> IF store THEN Append(st.gids, cpt.global_id) ELSE st.gids,
         hints_str |-> st.hints_str \o get_hints_yaml(cpt),
         cpts |-> Append(st.cpts, cpt)]

\* The pass that keeps the global id and never stores the document.
sc_component_no_metadata(st, cpt) ==
    [e |-> st.e,
     gids |-> IF has_ignore_reason(cpt) THEN st.gids
              ELSE Append(st.gids, cpt.global_id),
     hints_str |-> st.hints_str \o get_hints_yaml(cpt),
     cpts |-> Append(st.cpts, cpt)]

\* The pass without the second has_ignore_reason check.
sc_component_no_recheck(st, cpt) ==
    LET generate == ~has_ignore_reason(cpt)
                    /\ ~metadata_exists(st.e, cpt.global_id)
        cpt1 == IF generate THEN after_yaml_doc(cpt) ELSE cpt
        keep == ~has_ignore_reason(cpt)
        e1 == IF generate
              THEN set_metadata(st.e, cpt.global_id, to_yaml_doc(cpt))
              ELSE st.e
        hints_yml == get_hints_yaml(cpt1)
    IN  [e |-> e1,
         gids |-> IF keep THEN Append(st.gids, cpt.global_id) ELSE st.gids,
         hints_str |-> IF hints_yml # <<>> THEN st.hints_str \o hints_yml
                       ELSE st.hints_str,
         cpts |-> Append(st.cpts, cpt1)]

\* One pass of the loop over cpts. st holds the environment, the gids kept, the
\* hints collected and the components as the pass leaves them.
sc_component(st, cpt) ==
    LET generate == ~has_ignore_reason(cpt)
                    /\ ~metadata_exists(st.e, cpt.global_id)
        cpt1 == IF generate THEN after_yaml_doc(cpt) ELSE cpt
        keep == ~has_ignore_reason(cpt1)
        e1 == IF generate /\ keep
              THEN set_metadata(st.e, cpt.global_id, to_yaml_doc(cpt))
              ELSE st.e
        hints_yml == get_hints_yaml(cpt1)
    IN  [e |-> e1,
         gids |-> IF keep THEN Append(st.gids, cpt.global_id) ELSE st.gids,
         hints_str |-> IF hints_yml # <<>> THEN st.hints_str \o hints_yml
                       ELSE st.hints_str,
         cpts |-> Append(st.cpts, cpt1)]

RECURSIVE sc_loop(_, _)
sc_loop(st, cpts) ==
    IF cpts = <<>> THEN st ELSE sc_loop(sc_component(st, Head(cpts)), Tail(cpts))

\* The record that is 'seen' whenever no global id was kept.
sc_record_always_seen(e, pkgid, gids, hints_str) ==
    IF gids # <<>>
    THEN [e EXCEPT !.packages = Put(@, tobytes(pkgid), tobytes(join(<<NL>>, gids)))]
    ELSE [e EXCEPT !.packages = Put(@, tobytes(pkgid), SEEN)]

\* The packages record written after the loop.
sc_record(e, pkgid, gids, hints_str) ==
    IF gids # <<>>
    THEN [e EXCEPT !.packages = Put(@, tobytes(pkgid), tobytes(join(<<NL>>, gids)))]
    ELSE IF hints_str # <<>>
    THEN [e EXCEPT !.packages = Put(@, tobytes(pkgid), SEEN)]
    ELSE e

\* The loop's result for a non-empty component list.
sc_run(e, cpts) ==
    sc_loop([e |-> e, gids |-> <<>>, hints_str |-> <<>>, cpts |-> <<>>], cpts)

\* set_components without the early return for an empty component list.
set_components_no_early_return(e, pkgid, cpts) ==
    LET st == sc_run(e, cpts)
    IN  sc_record(set_hints(st.e, pkgid, st.hints_str), pkgid,
                  st.gids, st.hints_str)

\* set_components storing the hints only when a global id was kept.
set_components_hints_when_kept(e, pkgid, cpts) ==
    IF Len(cpts) = 0 THEN set_package_ignore(e, pkgid)
    ELSE LET st == sc_run(e, cpts)
         IN  sc_record(IF st.gids # <<>>
                       THEN set_hints(st.e, pkgid, st.hints_str) ELSE st.e,
                       pkgid, st.gids, st.hints_str)

set_components(e, pkgid, cpts) ==
    IF Len(cpts) = 0 THEN set_package_ignore(e, pkgid)
    ELSE LET st == sc_run(e, cpts)
         IN  sc_record(set_hints(st.e, pkgid, st.hints_str), pkgid,
                       st.gids, st.hints_str)

\* The component objects as a set_components call leaves them.
cpts_after_set_components(e, cpts) ==
    IF Len(cpts) = 0 THEN cpts ELSE sc_run(e, cpts).cpts

\* The tables remove_package and delete_package_by_name go through, one write
\* transaction each, in this order.
PkgTables == <<"packages", "hints", "suites">>

\* One transaction of remove_package: the key is deleted from one table.
rp_delete(e, table, pkgid) == [e EXCEPT ![table] = Delete(@, tobytes(pkgid))]

\* remove_package that takes the metadata of the package's components along.
remove_package_with_metadata(e, pkgid) ==
    LET gids == get_cpt_gids_for_pkg(e, pkgid)
        e1 == rp_delete(rp_delete(rp_delete(e, PkgTables[1], pkgid),
                                  PkgTables[2], pkgid), PkgTables[3], pkgid)
    IN  IF gids = None THEN e1
        ELSE [e1 EXCEPT !.metadata =
                 [k \in DOMAIN @ \ {tobytes(TheVal(gids)[i]) :
                                        i \in 1..Len(TheVal(gids))} |-> @[k]]]

\* remove_package without its third transaction.
remove_package_keeps_suites(e, pkgid) ==
    rp_delete(rp_delete(e, PkgTables[1], pkgid), PkgTables[2], pkgid)

remove_package(e, pkgid) ==
    rp_delete(rp_delete(rp_delete(e, PkgTables[1], pkgid), PkgTables[2], pkgid),
              PkgTables[3], pkgid)

\* The scan with the membership test inverted.
get_packages_in_set(e, pkgset) ==
    {key \in DOMAIN e.packages : tostr(key) \in pkgset}

\* The scan that returns at once when pkgset is empty or None.
get_packages_not_in_set_nonempty(e, pkgset) ==
    IF pkgset = {} THEN {}
    ELSE {key \in DOMAIN e.packages : tostr(key) \notin pkgset}

\* "if not pkgset: pkgset = set()": None and the empty set are both {} here.
get_packages_not_in_set(e, pkgset) ==
    {key \in DOMAIN e.packages : tostr(key) \notin pkgset}

----------------------------------------------------------------------------
\* Suite membership. The set of suite names is stored as YAML text in the flow
\* style yaml.dump gives a set: "!!set {}" and "!!set {a: null, b: null}",
\* the names in sorted order, each text ending with a newline.

\* "!!set {"
YAML_SET_OPEN == <<33, 33, 115, 101, 116, 32, 123>>
\* "}" and the newline
YAML_SET_CLOSE == <<125, 10>>
\* ": null"
YAML_NULL == <<58, 32, 110, 117, 108, 108>>
\* ", "
YAML_SEP == <<44, 32>>

RECURSIVE sorted_strs(_)
sorted_strs(strs) ==
    IF strs = {} THEN <<>>
    ELSE LET m == CHOOSE m \in strs :
                      \A x \in strs \ {m} :
                          \E i \in 1..Len(x) :
                              /\ i <= Len(m) + 1
                              /\ \A j \in 1..(i - 1) : m[j] = x[j]
                              /\ (i = Len(m) + 1 \/ m[i] < x[i])
         IN  <<m>> \o sorted_strs(strs \ {m})

\* yaml.dump(suites) for a set of names
yaml_dump(suites) ==
    LET names == sorted_strs(suites)
        items == [i \in 1..Len(names) |-> names[i] \o YAML_NULL]
    IN  YAML_SET_OPEN \o join(YAML_SEP, items) \o YAML_SET_CLOSE

\* One "name: null" item of the flow mapping, a leading space dropped.
yaml_item_name(item) ==
    LET t == IF item # <<>> /\ item[1] = YAML_SEP[2] THEN Tail(item) ELSE item
    IN  SubSeq(t, 1, Len(t) - Len(YAML_NULL))

\* yaml.load(text) of a dumped set
yaml_load(text) ==
    LET s == tostr(text)
        inner == SubSeq(s, Len(YAML_SET_OPEN) + 1, Len(s) - Len(YAML_SET_CLOSE))
        items == split(inner, YAML_SEP[1])
    IN  IF inner = <<>> THEN {}
        ELSE {yaml_item_name(items[i]) : i \in 1..Len(items)}

package_in_suite(e, pkgid, suite) ==
    LET yaml_suites == Get(e.suites, tobytes(pkgid))
    IN  IF Falsy(yaml_suites) THEN FALSE
        ELSE suite \in yaml_load(TheVal(yaml_suites))

add_package_to_suite(e, pkgid, suite) ==
    LET stored == Get(e.suites, tobytes(pkgid))
        suites == IF Falsy(stored) THEN {} ELSE yaml_load(TheVal(stored))
    IN  [e EXCEPT !.suites = Put(@, tobytes(pkgid),
                                 tobytes(yaml_dump(suites \cup {suite})))]

\* The removal that deletes the record when the set becomes empty.
remove_package_from_suite_deleting(e, pkgid, suite) ==
    LET stored == Get(e.suites, tobytes(pkgid))
    IN  IF Falsy(stored) THEN e
        ELSE IF yaml_load(TheVal(stored)) \ {suite} = {}
        THEN [e EXCEPT !.suites = Delete(@, tobytes(pkgid))]
        ELSE [e EXCEPT !.suites = Put(@, tobytes(pkgid),
                  tobytes(yaml_dump(yaml_load(TheVal(stored)) \ {suite})))]

\* The removal that stores an empty set.
remove_package_from_suite_all(e, pkgid, suite) ==
    LET stored == Get(e.suites, tobytes(pkgid))
    IN  IF Falsy(stored) THEN e
        ELSE [e EXCEPT !.suites = Put(@, tobytes(pkgid), tobytes(yaml_dump({})))]

remove_package_from_suite(e, pkgid, suite) ==
    LET stored == Get(e.suites, tobytes(pkgid))
    IN  IF Falsy(stored) THEN e
        ELSE [e EXCEPT !.suites = Put(@, tobytes(pkgid),
                  tobytes(yaml_dump(yaml_load(TheVal(stored)) \ {suite})))]

----------------------------------------------------------------------------
\* The cached media tree. A directory is the sequence of its path segments
\* below the media root; <<>> is the media root itself.

\* os.path.join(media_dir, section, gid): the global id's '/' are path separators.
media_path(section, gid) == <<section>> \o split(gid, SLASH)

\* glob.glob(os.path.join(self.media_dir, "*", gid))
glob_gid(fs, gid) ==
    {d \in fs : Len(d) >= 1 /\ d = media_path(d[1], gid)}

\* shutil.rmtree(d)
rmtree(fs, d) == {x \in fs : ~(Len(x) >= Len(d) /\ SubSeq(x, 1, Len(d)) = d)}

\* os.listdir(d) is empty
listdir_empty(fs, d) ==
    ~\E x \in fs : Len(x) = Len(d) + 1 /\ SubSeq(x, 1, Len(d)) = d

\* The names os.listdir / os.scandir gives for the media root.
root_entries(fs) == {d[1] : d \in {x \in fs : Len(x) >= 1}}

\* A directory listing comes in arbitrary order: every order of the names.
Listings(names) ==
    {l \in [1..Cardinality(names) -> names] :
        \A i, j \in 1..Cardinality(names) : i # j => l[i] # l[j]}

\* _cleanup_empty_dirs, with n of its three passes left. The directory above
\* the media root is the export directory, which holds the media root: it is
\* never empty and nothing above the root changes.
RECURSIVE cleanup_from(_, _, _)
cleanup_from(fs, parent, n) ==
    IF n = 0 \/ parent = <<>> THEN fs
    ELSE LET up == SubSeq(parent, 1, Len(parent) - 1)
         IN  IF up \notin fs THEN fs
             ELSE IF listdir_empty(fs, up)
             THEN cleanup_from(fs \ {up}, up, n - 1)
             ELSE cleanup_from(fs, up, n - 1)

\* The cleanup with a fourth pass.
_cleanup_empty_dirs_four(fs, d) == cleanup_from(fs, d, 4)

_cleanup_empty_dirs(fs, d) == cleanup_from(fs, d, 3)

\* The media root the generator hands to DataCache: always configured.
media_dir_set == TRUE

\* _remove_media_for_gid. listing is the order in which glob finds the entries
\* of the media root; dirs[0] is the match below the first of them.
\* Returns the tree and the result (None when glob finds nothing).
_remove_media_for_gid(fs, gid, listing) ==
    IF ~media_dir_set THEN [fs |-> fs, ret |-> Some(FALSE)]
    ELSE IF gid = <<>> THEN [fs |-> fs, ret |-> Some(FALSE)]
    ELSE LET dirs == glob_gid(fs, gid)
         IN  IF dirs = {} THEN [fs |-> fs, ret |-> None]
             ELSE LET first == CHOOSE i \in 1..Len(listing) :
                                  /\ media_path(listing[i], gid) \in dirs
                                  /\ \A j \in 1..(i - 1) :
                                        media_path(listing[j], gid) \notin dirs
                      d0 == media_path(listing[first], gid)
                  IN  [fs |-> _cleanup_empty_dirs(rmtree(fs, d0), d0),
                       ret |-> Some(TRUE)]

----------------------------------------------------------------------------
\* Cursors. LMDB keeps the keys of a table in lexicographic byte order.

BytesLess(a, b) ==
    \E i \in 1..(Len(b)) :
        /\ i <= Len(a) + 1
        /\ \A j \in 1..(i - 1) : a[j] = b[j]
        /\ (i = Len(a) + 1 \/ a[i] < b[i])

RECURSIVE SortedKeys(_)
SortedKeys(keys) ==
    IF keys = {} THEN <<>>
    ELSE LET m == CHOOSE m \in keys : \A x \in keys \ {m} : BytesLess(m, x)
         IN  <<m>> \o SortedKeys(keys \ {m})

\* "for key, value in cursor": the keys of the table, in order.
cursor(db) == SortedKeys(DOMAIN db)

----------------------------------------------------------------------------
\* The garbage collector.

\* The reverse index built from the first global id of every record only.
gid_pkg_index_first_only(e) ==
    LET listed == {key \in DOMAIN e.packages :
                      /\ e.packages[key] # <<>>
                      /\ e.packages[key] # IGNORE
                      /\ e.packages[key] # SEEN}
        first(key) == split(tostr(e.packages[key]), NL)[1]
    IN  [gid \in {first(key) : key \in listed} |->
            {key \in listed : first(key) = gid}]

\* The reverse index built from the packages that are in a suite only.
gid_pkg_index_in_suites(e) ==
    LET listed == {key \in DOMAIN e.packages :
                      /\ e.packages[key] # <<>>
                      /\ e.packages[key] # IGNORE
                      /\ e.packages[key] # SEEN
                      /\ key \in DOMAIN e.suites
                      /\ yaml_load(e.suites[key]) # {}}
        gidsof(key) == split(tostr(e.packages[key]), NL)
        allgids == UNION {{gidsof(key)[i] : i \in 1..Len(gidsof(key))} :
                             key \in listed}
    IN  [gid \in allgids |->
            {key \in listed : \E i \in 1..Len(gidsof(key)) : gidsof(key)[i] = gid}]

\* The reverse index remove_orphaned_components builds: for every global id
\* named by a packages record, the keys of the records that name it. Only the
\* presence of an id is read; the order of a list is not modelled.
gid_pkg_index(e) ==
    LET listed == {key \in DOMAIN e.packages :
                      /\ e.packages[key] # <<>>
                      /\ e.packages[key] # IGNORE
                      /\ e.packages[key] # SEEN}
        gidsof(key) == split(tostr(e.packages[key]), NL)
        allgids == UNION {{gidsof(key)[i] : i \in 1..Len(gidsof(key))} :
                             key \in listed}
    IN  [gid \in allgids |->
            {key \in listed : \E i \in 1..Len(gidsof(key)) : gidsof(key)[i] = gid}]

\* gid_pkg.get(gid)
index_get(gid_pkg, gid) ==
    IF gid \in DOMAIN gid_pkg THEN gid_pkg[gid] ELSE {}

\* The pass without the test for a referencing package.
roc_entry_unchecked(st, gid_pkg, gidkey, listing) ==
    [e |-> [st.e EXCEPT !.metadata = Delete(@, gidkey)],
     fs |-> _remove_media_for_gid(st.fs, tostr(gidkey), listing).fs]

\* One pass of the loop over the metadata cursor: gidkey is the key read.
\* st holds the environment and the media tree.
roc_entry(st, gid_pkg, gidkey, listing) ==
    LET gid == tostr(gidkey)
    IN  IF index_get(gid_pkg, gid) # {} THEN st
        ELSE [e |-> [st.e EXCEPT !.metadata = Delete(@, tobytes(gid))],
              fs |-> _remove_media_for_gid(st.fs, gid, listing).fs]

RECURSIVE roc_loop(_, _, _, _)
roc_loop(st, gid_pkg, keys, listing) ==
    IF keys = <<>> THEN st
    ELSE roc_loop(roc_entry(st, gid_pkg, Head(keys), listing), gid_pkg,
                  Tail(keys), listing)

\* remove_orphaned_components: the reverse index is built from the packages
\* table, the cursor reads the metadata table as it was when the scan began.
remove_orphaned_components(e, fs, listing) ==
    roc_loop([e |-> e, fs |-> fs], gid_pkg_index(e), cursor(e.metadata), listing)

\* list_cptdirs: the directories five levels below the media root (depth 6 in
\* the code's count), section by section in the order os.walk lists the root.
cptdirs_below(fs, section) == {d \in fs : Len(d) = 5 /\ d[1] = section}

\* The component id of a directory: its path without the section.
cptid_of(d) == join(<<SLASH>>, Tail(d))

\* The walk that removes the media of every component directory it finds.
RECURSIVE rom_section_unchecked(_, _, _)
rom_section_unchecked(st, todo, listing) ==
    IF todo = {} THEN st
    ELSE LET d == CHOOSE d \in todo : TRUE
         IN  rom_section_unchecked(
                 IF d \in st.fs
                 THEN [st EXCEPT !.fs = _remove_media_for_gid(@, cptid_of(d),
                                                               listing).fs]
                 ELSE st,
                 todo \ {d}, listing)

\* The walk reaches a directory only if it still exists; the order of the
\* directories of one section is the order CHOOSE fixes.
RECURSIVE rom_section(_, _, _)
rom_section(st, todo, listing) ==
    IF todo = {} THEN st
    ELSE LET d == CHOOSE d \in todo : TRUE
             hit == d \in st.fs /\ ~metadata_exists(st.e, cptid_of(d))
         IN  rom_section(
                 IF hit
                 THEN [st EXCEPT !.fs = _remove_media_for_gid(@, cptid_of(d),
                                                               listing).fs]
                 ELSE st,
                 todo \ {d}, listing)

RECURSIVE rom_walk(_, _, _)
rom_walk(st, walk, listing) ==
    IF walk = <<>> THEN st
    ELSE rom_walk(rom_section(st, cptdirs_below(st.fs, Head(walk)), listing),
                  Tail(walk), listing)

\* remove_orphaned_media: walk is the order in which os.walk lists the media
\* root, listing the order in which glob lists it.
remove_orphaned_media(e, fs, walk, listing) ==
    IF ~media_dir_set THEN [e |-> e, fs |-> fs]
    ELSE rom_walk([e |-> e, fs |-> fs], walk, listing)

----------------------------------------------------------------------------
\* Bulk operations.

\* The keys that start with the package name, the "/" not required.
name_keys_no_slash(db, pkgname) ==
    {pkid \in DOMAIN db : startswith(tostr(pkid), pkgname)}

\* The keys of a table that start with pkgname + '/'.
name_keys(db, pkgname) ==
    {pkid \in DOMAIN db : startswith(tostr(pkid), pkgname \o <<SLASH>>)}

\* One of the three scans, a write transaction over one table: every matching
\* key is deleted, and data_removed is set if there was one.
dn_scan(st, table, pkgname) ==
    [e |-> [st.e EXCEPT ![table] =
                [pkid \in DOMAIN @ \ name_keys(@, pkgname) |-> @[pkid]]],
     ret |-> st.ret \/ name_keys(st.e[table], pkgname) # {}]

delete_package_by_name(e, pkgname) ==
    dn_scan(dn_scan(dn_scan([e |-> e, ret |-> FALSE], PkgTables[1], pkgname),
                    PkgTables[2], pkgname),
            PkgTables[3], pkgname)

\* pkid_str.split("/", 1)[1]
after_first_slash(s) ==
    LET i == CHOOSE i \in 1..Len(s) :
                 s[i] = SLASH /\ \A j \in 1..(i - 1) : s[j] # SLASH
    IN  SubSeq(s, i + 1, Len(s))

\* The scan that takes every key that starts with the package name.
RECURSIVE gi_scan_no_slash(_, _, _)
gi_scan_no_slash(db, keys, pkgname) ==
    IF keys = <<>> THEN <<>>
    ELSE (IF startswith(tostr(Head(keys)), pkgname)
          THEN <<<<after_first_slash(tostr(Head(keys))),
                   split(tostr(db[Head(keys)]), NL)>>>>
          ELSE <<>>) \o gi_scan_no_slash(db, Tail(keys), pkgname)

\* get_info: the pairs the generator yields while its cursor goes over keys.
RECURSIVE gi_scan(_, _, _)
gi_scan(db, keys, pkgname) ==
    IF keys = <<>> THEN <<>>
    ELSE (IF startswith(tostr(Head(keys)), pkgname \o <<SLASH>>)
          THEN <<<<after_first_slash(tostr(Head(keys))),
                   split(tostr(db[Head(keys)]), NL)>>>>
          ELSE <<>>) \o gi_scan(db, Tail(keys), pkgname)

----------------------------------------------------------------------------
\* The driver's cleanup (generator.py).

\* "for pkid in oldpkgs: remove_package(str(pkid, 'utf-8'))"
RECURSIVE expire_loop(_, _)
expire_loop(e, oldpkgs) ==
    IF oldpkgs = {} THEN e
    ELSE LET pkid == CHOOSE pkid \in oldpkgs : TRUE
         IN  expire_loop(remove_package(e, tostr(pkid)), oldpkgs \ {pkid})

\* expire_cache for the archive snapshot pkgids: the expiry sweep, then
\* remove_orphaned_components, then remove_orphaned_media.
expire_cache(e, fs, pkgids, listing, walk) ==
    LET oldpkgs == get_packages_not_in_set(e, pkgids)
        e1 == expire_loop(e, oldpkgs)
        st2 == remove_orphaned_components(e1, fs, listing)
    IN  remove_orphaned_media(st2.e, st2.fs, walk, listing)

----------------------------------------------------------------------------
\* The inputs of the model.

\* Package ids "a/1", "a/2" and "ab/1": two versions of package a, and a
\* package whose name starts with a.
PKG_A1 == <<97, 47, 49>>
PKG_A2 == <<97, 47, 50>>
PKG_AB1 == <<97, 98, 47, 49>>

\* Package names handed to delete_package_by_name: "a", "ab" and "b".
PkgNames == {<<97>>, <<97, 98>>, <<98>>}

\* Global ids "x/y/z/1" and "x/y/z/2": four path segments, as the media tree
\* expects.
GID1 == <<120, 47, 121, 47, 122, 47, 49>>
GID2 == <<120, 47, 121, 47, 122, 47, 50>>
Gids == {GID1, GID2}

\* Documents: "A" for GID1 and the two-byte "\u00e9" for GID2.
DocOf(gid) == IF gid = GID1 THEN <<65>> ELSE <<233>>

\* The hint text "h".
HINT == <<104>>

\* A component record of the extraction collaborator.
Cpt(gid, ignore, gen_ignore, hints) ==
    [global_id |-> gid, ignore |-> ignore, gen_ignore |-> gen_ignore,
     yaml |-> DocOf(gid), hints |-> hints, gen_hints |-> HINT]

\* Components without an ignore reason and without hints.
CPT_1 == Cpt(GID1, FALSE, FALSE, <<>>)
CPT_2 == Cpt(GID2, FALSE, FALSE, <<>>)
\* A component that has an ignore reason and no hints.
CPT_IGN == Cpt(GID1, TRUE, FALSE, <<>>)
\* A component that document generation disqualifies, which adds a hint.
CPT_GEN == Cpt(GID2, FALSE, TRUE, <<>>)

Cpts == {CPT_1, CPT_2, CPT_IGN, CPT_GEN}

\* The component lists of at most n components out of cs. The components of
\* one package are distinct records.
ListsOf(cs, n) ==
    UNION {{l \in [1..k -> cs] : \A i, j \in 1..k : i # j => l[i] # l[j]} :
              k \in 0..n}

CptLists == ListsOf(Cpts, MaxCpts)

\* A component that comes with a hint and no ignore reason.
CPT_H == Cpt(GID1, FALSE, FALSE, HINT)

\* A component that has an ignore reason and comes with the hint "i".
HINT_I == <<105>>
CPT_IGN_H == Cpt(GID2, TRUE, FALSE, HINT_I)

\* The documents set_metadata is called with directly: empty, "A", "\u00e9".
Docs == {<<>>, <<65>>, <<233>>}

\* Cache directories "c" and "d".
CACHE_DIR == <<99>>
CacheDirs == {CACHE_DIR, <<100>>}

\* Suite names "s" and "t".
SuiteNames == {<<115>>, <<116>>}

\* Media sections "m" and "c" (component directories below the media root).
Sections == {<<109>>, <<99>>}

----------------------------------------------------------------------------
\* The state after construction: DataCache.open on a fresh directory, the
\* media root created by the generator.

Init ==
    /\ pkgdb = EmptyDb
    /\ hintsdb = EmptyDb
    /\ datadb = EmptyDb
    /\ suitesdb = EmptyDb
    /\ mediafs = {<<>>}
    /\ run = <<>>
    /\ last = [op |-> "open"]
    /\ handle = open(new_handle, CACHE_DIR)
    /\ driver = no_driver

----------------------------------------------------------------------------
\* What a call leaves in last when it returns.

\* The metadata keys of the tables before that are gone from the tables after.
removed_gids(before, after) == DOMAIN before.metadata \ DOMAIN after.metadata

\* after holds the component objects as the call left them.
ret_set_components(pkgid, cpts, after) ==
    [op |-> "set_components", pkgid |-> pkgid, cpts |-> cpts, after |-> after]

ret_remove_package(pkgid) == [op |-> "remove_package", pkgid |-> pkgid]

ret_delete_package_by_name(pkgname, ret) ==
    [op |-> "delete_package_by_name", pkgname |-> pkgname, ret |-> ret]

ret_remove_orphaned_components(removed) ==
    [op |-> "remove_orphaned_components", removed |-> removed]

\* oldpkgs is what get_packages_not_in_set returned, before the packages
\* table at the call.
ret_expire_cache(pkgids, before, removed) ==
    [op |-> "expire_cache", pkgids |-> pkgids,
     oldpkgs |-> get_packages_not_in_set(before, pkgids),
     before |-> before.packages, removed |-> removed]

----------------------------------------------------------------------------
\* The operations, one action per call, each the whole call.

SetComponents(pkgid, cpts) ==
    /\ run = <<>>
    /\ handle._dbenv = Some(CACHE_DIR)
    /\ UNCHANGED proc
    /\ Commit(set_components(Env, pkgid, cpts))
    /\ UNCHANGED <<mediafs, run>>
    /\ last' = ret_set_components(pkgid, cpts,
                                  cpts_after_set_components(Env, cpts))

SetPackageIgnore(pkgid) ==
    /\ run = <<>>
    /\ handle._dbenv = Some(CACHE_DIR)
    /\ UNCHANGED proc
    /\ Commit(set_package_ignore(Env, pkgid))
    /\ UNCHANGED <<mediafs, run>>
    /\ last' = [op |-> "set_package_ignore", pkgid |-> pkgid]

SetMetadata(gid, doc) ==
    /\ run = <<>>
    /\ handle._dbenv = Some(CACHE_DIR)
    /\ UNCHANGED proc
    /\ Commit(set_metadata(Env, gid, doc))
    /\ UNCHANGED <<mediafs, run>>
    /\ last' = [op |-> "set_metadata", gid |-> gid, doc |-> doc]

RemovePackage(pkgid) ==
    /\ run = <<>>
    /\ handle._dbenv = Some(CACHE_DIR)
    /\ UNCHANGED proc
    /\ Commit(remove_package(Env, pkgid))
    /\ UNCHANGED <<mediafs, run>>
    /\ last' = ret_remove_package(pkgid)

DeletePackageByName(pkgname) ==
    LET r == delete_package_by_name(Env, pkgname)
    IN  /\ run = <<>>
        /\ handle._dbenv = Some(CACHE_DIR)
        /\ UNCHANGED proc
        /\ Commit(r.e)
        /\ UNCHANGED <<mediafs, run>>
        /\ last' = ret_delete_package_by_name(pkgname, r.ret)

AddPackageToSuite(pkgid, suite) ==
    /\ run = <<>>
    /\ handle._dbenv = Some(CACHE_DIR)
    /\ UNCHANGED proc
    /\ Commit(add_package_to_suite(Env, pkgid, suite))
    /\ UNCHANGED <<mediafs, run>>
    /\ last' = [op |-> "add_package_to_suite", pkgid |-> pkgid, suite |-> suite]

RemovePackageFromSuite(pkgid, suite) ==
    /\ run = <<>>
    /\ handle._dbenv = Some(CACHE_DIR)
    /\ UNCHANGED proc
    /\ Commit(remove_package_from_suite(Env, pkgid, suite))
    /\ UNCHANGED <<mediafs, run>>
    /\ last' = [op |-> "remove_package_from_suite", pkgid |-> pkgid,
                suite |-> suite]

\* get_packages_not_in_set(pkgset), its result kept in last.
GetPackagesNotInSet(pkgset) ==
    /\ run = <<>>
    /\ handle._dbenv = Some(CACHE_DIR)
    /\ last' = [op |-> "get_packages_not_in_set", pkgset |-> pkgset,
                ret |-> get_packages_not_in_set(Env, pkgset)]
    /\ UNCHANGED <<tables, mediafs, run, proc>>

RemoveOrphanedComponents ==
    \E listing \in Listings(root_entries(mediafs)) :
        LET r == remove_orphaned_components(Env, mediafs, listing)
        IN  /\ run = <<>>
            /\ handle._dbenv = Some(CACHE_DIR)
            /\ UNCHANGED proc
            /\ Commit(r.e)
            /\ mediafs' = r.fs
            /\ UNCHANGED run
            /\ last' = ret_remove_orphaned_components(removed_gids(Env, r.e))

\* os.walk and glob both read the media root with os.scandir and the sweep
\* leaves the entries of the root as they are: one order for both.
RemoveOrphanedMedia ==
    \E listing \in Listings(root_entries(mediafs)) :
        LET r == remove_orphaned_media(Env, mediafs, listing, listing)
        IN  /\ run = <<>>
            /\ handle._dbenv = Some(CACHE_DIR)
            /\ UNCHANGED proc
            /\ Commit(r.e)
            /\ mediafs' = r.fs
            /\ UNCHANGED run
            /\ last' = [op |-> "remove_orphaned_media"]

ExpireCache(pkgids) ==
    \E listing \in Listings(root_entries(mediafs)) :
        LET r == expire_cache(Env, mediafs, pkgids, listing, listing)
        IN  /\ run = <<>>
            /\ handle._dbenv = Some(CACHE_DIR)
            /\ UNCHANGED proc
            /\ Commit(r.e)
            /\ mediafs' = r.fs
            /\ UNCHANGED run
            /\ last' = ret_expire_cache(pkgids, Env, removed_gids(Env, r.e))

\* os.makedirs(d)
makedirs(fs, d) == fs \cup {SubSeq(d, 1, n) : n \in 0..Len(d)}

\* The icon handler stores an icon of a component below
\* <media root>/<section>/<gid>/icons/<size>; "icons" and "64" here.
icon_path(section, gid) == media_path(section, gid) \o <<<<105>>, <<54, 52>>>>

StoreIcon(section, gid) ==
    /\ run = <<>>
    /\ UNCHANGED proc
    /\ mediafs' = makedirs(mediafs, icon_path(section, gid))
    /\ UNCHANGED <<tables, run>>
    /\ last' = [op |-> "store_icon", section |-> section, gid |-> gid]

----------------------------------------------------------------------------
\* The cache under sequential calls on two packages that may share global ids.

PkgIds == {PKG_A1, PKG_AB1}

Next ==
    \/ \E pkgid \in PkgIds, cpts \in CptLists : SetComponents(pkgid, cpts)
    \/ \E pkgid \in PkgIds : SetPackageIgnore(pkgid)
    \/ \E gid \in Gids : SetMetadata(gid, DocOf(gid))
    \/ \E pkgid \in PkgIds : RemovePackage(pkgid)
    \/ \E pkgname \in PkgNames : DeletePackageByName(pkgname)
    \/ RemoveOrphanedComponents
    \/ \E pkgids \in SUBSET PkgIds : ExpireCache(pkgids)

Spec == Init /\ [][Next]_vars

----------------------------------------------------------------------------
\* The metadata table under direct set_metadata calls, next to set_components
\* and the orphan sweep.

NextMeta ==
    \/ \E gid \in Gids, doc \in Docs : SetMetadata(gid, doc)
    \/ \E cpts \in ListsOf({CPT_1, CPT_2}, 1) : SetComponents(PKG_A1, cpts)
    \/ RemoveOrphanedComponents

SpecMeta == Init /\ [][NextMeta]_vars

----------------------------------------------------------------------------
\* The scans over the package tables: three package ids, two of one package
\* name and one of a name that the first is a prefix of.

ScanPkgIds == {PKG_A1, PKG_A2, PKG_AB1}

NextScan ==
    \/ \E pkgid \in ScanPkgIds, cpts \in ListsOf({CPT_H}, 1) :
           SetComponents(pkgid, cpts)
    \/ \E pkgid \in ScanPkgIds : AddPackageToSuite(pkgid, <<115>>)
    \/ \E pkgname \in PkgNames : DeletePackageByName(pkgname)
    \/ \E pkgids \in SUBSET ScanPkgIds : ExpireCache(pkgids)

SpecScan == Init /\ [][NextScan]_vars

----------------------------------------------------------------------------
\* The handle's life: open, close and reopen in any order on a new DataCache
\* object, cache calls while it is open and while it is not. The tables are
\* those of the environment at CACHE_DIR.

\* The cache operations that begin a transaction, and the media sweep.
CacheCalls ==
    {"metadata_exists", "get_metadata", "set_metadata", "set_package_ignore",
     "package_in_suite", "add_package_to_suite", "remove_package_from_suite",
     "get_cpt_gids_for_pkg", "get_metadata_for_pkg", "set_components",
     "get_hints", "set_hints", "remove_package", "is_ignored", "package_exists",
     "get_packages_not_in_set", "remove_orphaned_components",
     "remove_orphaned_media", "set_stats", "get_stats",
     "delete_package_by_name", "get_info"}

\* What a cache operation does on a handle that is not open. _dbenv is None,
\* so the first self._dbenv.begin raises an AttributeError, before anything is
\* written. remove_orphaned_media reaches a transaction only through
\* metadata_exists, for the first component directory it finds: with none
\* below the media root it returns normally.
closed_call(call, component_dirs) ==
    IF call = "remove_orphaned_media" /\ (~media_dir_set \/ component_dirs = {})
    THEN None
    ELSE Some("AttributeError")

InitHandle ==
    /\ pkgdb = EmptyDb
    /\ hintsdb = EmptyDb
    /\ datadb = EmptyDb
    /\ suitesdb = EmptyDb
    /\ mediafs = {<<>>}
    /\ run = <<>>
    /\ last = [op |-> "__init__"]
    /\ handle = new_handle
    /\ driver = no_driver

Open(cachedir) ==
    /\ run = <<>>
    /\ handle' = open(handle, cachedir)
    /\ last' = [op |-> "open", cachedir |-> cachedir]
    /\ UNCHANGED <<tables, mediafs, run, driver>>

Close ==
    /\ run = <<>>
    /\ handle' = close(handle)
    /\ last' = [op |-> "close"]
    /\ UNCHANGED <<tables, mediafs, run, driver>>

Reopen ==
    /\ run = <<>>
    /\ handle' = reopen(handle).h
    /\ last' = [op |-> "reopen", err |-> reopen(handle).err]
    /\ UNCHANGED <<tables, mediafs, run, driver>>

\* A cache operation is invoked on the handle while it is not open.
CallWhileClosed(call) ==
    /\ run = <<>>
    /\ ~handle._opened
    /\ last' = [op |-> "closed_call", call |-> call,
                err |-> closed_call(call, UNION {cptdirs_below(mediafs, section) :
                                                    section \in root_entries(mediafs)})]
    /\ UNCHANGED <<tables, mediafs, run, proc>>

NextHandle ==
    \/ \E cachedir \in CacheDirs : Open(cachedir)
    \/ Close
    \/ Reopen
    \/ \E call \in CacheCalls : CallWhileClosed(call)
    \/ \E cpts \in ListsOf({CPT_1}, 1) : SetComponents(PKG_A1, cpts)
    \/ RemovePackage(PKG_A1)
    \/ StoreIcon(<<109>>, GID1)
    \/ RemoveOrphanedComponents
    \/ RemoveOrphanedMedia

SpecHandle == InitHandle /\ [][NextHandle]_vars

----------------------------------------------------------------------------
\* The calls one transaction at a time. run is the stack of the calls in
\* progress, the innermost first; a step of the innermost call commits at most
\* one write transaction. The process may die between any two steps: the
\* tables keep what was committed and the calls in progress are gone.

Top == Head(run)

Running(op) == run # <<>> /\ Top.op = op

stepped == [op |-> "step"]

sc_frame(pkgid, cpts) ==
    [op |-> "set_components", pkgid |-> pkgid, todo |-> cpts, gids |-> <<>>,
     hints_str |-> <<>>, pc |-> "loop"]

rp_frame(pkgid) == [op |-> "remove_package", pkgid |-> pkgid, pc |-> 1]

roc_frame(e, listing) ==
    [op |-> "remove_orphaned_components", gid_pkg |-> gid_pkg_index(e),
     keys |-> cursor(e.metadata), listing |-> listing]

ec_frame(e, pkgids) ==
    [op |-> "expire_cache", todo |-> get_packages_not_in_set(e, pkgids),
     phase |-> "expire"]

\* set_components is called with a non-empty component list.
CallSetComponents(pkgid, cpts) ==
    /\ run = <<>>
    /\ handle._dbenv = Some(CACHE_DIR)
    /\ UNCHANGED proc
    /\ Len(cpts) # 0
    /\ run' = <<sc_frame(pkgid, cpts)>>
    /\ last' = stepped
    /\ UNCHANGED <<tables, mediafs>>

\* One pass of the loop: the metadata lookup and, for a new global id, the
\* set_metadata transaction.
StepComponent ==
    /\ Running("set_components")
    /\ UNCHANGED proc
    /\ Top.pc = "loop"
    /\ LET st == sc_component([e |-> Env, gids |-> Top.gids,
                               hints_str |-> Top.hints_str, cpts |-> <<>>],
                              Head(Top.todo))
       IN  /\ Commit(st.e)
           /\ run' = <<[Top EXCEPT !.todo = Tail(@), !.gids = st.gids,
                                   !.hints_str = st.hints_str,
                                   !.pc = IF Tail(Top.todo) = <<>>
                                          THEN "hints" ELSE "loop"]>>
                      \o Tail(run)
    /\ last' = stepped
    /\ UNCHANGED mediafs

\* self.set_hints(pkgid, hints_str)
StepHints ==
    /\ Running("set_components")
    /\ UNCHANGED proc
    /\ Top.pc = "hints"
    /\ Commit(set_hints(Env, Top.pkgid, Top.hints_str))
    /\ run' = <<[Top EXCEPT !.pc = "record"]>> \o Tail(run)
    /\ last' = stepped
    /\ UNCHANGED mediafs

\* The packages record is written and set_components returns.
StepRecord ==
    /\ Running("set_components")
    /\ UNCHANGED proc
    /\ Top.pc = "record"
    /\ Commit(sc_record(Env, Top.pkgid, Top.gids, Top.hints_str))
    /\ run' = Tail(run)
    /\ last' = stepped
    /\ UNCHANGED mediafs

CallRemovePackage(pkgid) ==
    /\ run = <<>>
    /\ handle._dbenv = Some(CACHE_DIR)
    /\ UNCHANGED proc
    /\ run' = <<rp_frame(pkgid)>>
    /\ last' = stepped
    /\ UNCHANGED <<tables, mediafs>>

\* One of the three transactions of remove_package; it returns after the third.
StepRemovePackage ==
    /\ Running("remove_package")
    /\ UNCHANGED proc
    /\ Commit(rp_delete(Env, PkgTables[Top.pc], Top.pkgid))
    /\ run' = IF Top.pc = Len(PkgTables) THEN Tail(run)
              ELSE <<[Top EXCEPT !.pc = @ + 1]>> \o Tail(run)
    /\ last' = stepped
    /\ UNCHANGED mediafs

\* remove_orphaned_components is called: it builds the reverse index and opens
\* the cursor over the metadata table.
CallRemoveOrphanedComponents ==
    /\ run = <<>>
    /\ handle._dbenv = Some(CACHE_DIR)
    /\ UNCHANGED proc
    /\ \E listing \in Listings(root_entries(mediafs)) :
           run' = <<roc_frame(Env, listing)>>
    /\ last' = stepped
    /\ UNCHANGED <<tables, mediafs>>

\* The cursor's next key, with its delete transaction if the id is orphaned;
\* the call returns when the cursor is at its end.
StepRemoveOrphanedComponents ==
    /\ Running("remove_orphaned_components")
    /\ UNCHANGED proc
    /\ IF Top.keys = <<>>
       THEN /\ run' = Tail(run)
            /\ UNCHANGED <<tables, mediafs>>
       ELSE LET st == roc_entry([e |-> Env, fs |-> mediafs], Top.gid_pkg,
                                Head(Top.keys), Top.listing)
            IN  /\ Commit(st.e)
                /\ mediafs' = st.fs
                /\ run' = <<[Top EXCEPT !.keys = Tail(@)]>> \o Tail(run)
    /\ last' = stepped

CallExpireCache(pkgids) ==
    /\ run = <<>>
    /\ handle._dbenv = Some(CACHE_DIR)
    /\ UNCHANGED proc
    /\ run' = <<ec_frame(Env, pkgids)>>
    /\ last' = stepped
    /\ UNCHANGED <<tables, mediafs>>

\* "for pkid in oldpkgs": remove_package is called for an id not yet removed,
\* in the order the set gives them.
ExpireNext ==
    /\ Running("expire_cache")
    /\ UNCHANGED proc
    /\ Top.phase = "expire"
    /\ Top.todo # {}
    /\ \E pkid \in Top.todo :
           run' = <<rp_frame(tostr(pkid)), [Top EXCEPT !.todo = @ \ {pkid}]>>
                  \o Tail(run)
    /\ last' = stepped
    /\ UNCHANGED <<tables, mediafs>>

\* remove_orphaned_components called with packages still to expire.
ExpireSweepEarly ==
    /\ Running("expire_cache")
    /\ UNCHANGED proc
    /\ Top.phase = "expire"
    /\ \E listing \in Listings(root_entries(mediafs)) :
           run' = <<roc_frame(Env, listing), [Top EXCEPT !.phase = "media"]>>
                  \o Tail(run)
    /\ last' = stepped
    /\ UNCHANGED <<tables, mediafs>>

\* The expiry loop is over: remove_orphaned_components is called.
ExpireSweep ==
    /\ Running("expire_cache")
    /\ UNCHANGED proc
    /\ Top.phase = "expire"
    /\ Top.todo = {}
    /\ \E listing \in Listings(root_entries(mediafs)) :
           run' = <<roc_frame(Env, listing), [Top EXCEPT !.phase = "media"]>>
                  \o Tail(run)
    /\ last' = stepped
    /\ UNCHANGED <<tables, mediafs>>

\* remove_orphaned_media, which writes no table, and expire_cache returns.
ExpireMedia ==
    /\ Running("expire_cache")
    /\ UNCHANGED proc
    /\ Top.phase = "media"
    /\ \E listing \in Listings(root_entries(mediafs)) :
           LET r == remove_orphaned_media(Env, mediafs, listing, listing)
           IN  /\ Commit(r.e)
               /\ mediafs' = r.fs
    /\ run' = Tail(run)
    /\ last' = stepped

\* The process dies with calls in progress.
Crash ==
    /\ run # <<>>
    /\ UNCHANGED proc
    /\ run' = <<>>
    /\ last' = [op |-> "crash"]
    /\ UNCHANGED <<tables, mediafs>>

NextCrash ==
    \/ \E pkgid \in PkgIds, cpts \in ListsOf({CPT_1, CPT_2}, MaxCpts) :
           CallSetComponents(pkgid, cpts)
    \/ StepComponent
    \/ StepHints
    \/ StepRecord
    \/ \E pkgid \in PkgIds : SetPackageIgnore(pkgid)
    \/ \E pkgid \in PkgIds : CallRemovePackage(pkgid)
    \/ StepRemovePackage
    \/ CallRemoveOrphanedComponents
    \/ StepRemoveOrphanedComponents
    \/ \E pkgids \in SUBSET PkgIds : CallExpireCache(pkgids)
    \/ ExpireNext
    \/ ExpireSweep
    \/ ExpireMedia
    \/ Crash

SpecCrash == Init /\ [][NextCrash]_vars

----------------------------------------------------------------------------
\* A run of the generator (generator.py: main, process_suite, expire_cache).
\* driver holds the command, the position of the main thread, the
\* architectures process_suite has yet to go through, the state of the worker
\* pool and one record per task: its state and the DataCache object that was
\* pickled into it. The history fields record that handle_error ran, that
\* output was written after it, and that a cache operation met a handle that
\* was not open.

EXIT_ARGS == 1
EXIT_INIT == 2
EXIT_WORKER == 5

\* The longest list of architectures of a suite.
MaxArchs == 2

\* The packages of the suite, the same list for every architecture here.
PkgList == {PKG_A1, PKG_A2}

TaskActive == {"started", "open"}
TaskOver == {"missing", "reported", "error", "lost", "killed", "dropped"}

start_driver ==
    [cmd |-> "none", pc |-> "main", archs |-> 0, pool |-> "none",
     tasks |-> <<>>, exit |-> None, raised |-> FALSE,
     wrote_after_error |-> FALSE, closed_access |-> FALSE]

\* sys.exit(status) in the main thread, or the status an uncaught exception
\* gives the process.
exited(d, status) == [d EXCEPT !.pc = "exit", !.exit = Some(status)]

\* The list taken whole.
pkgs_todo_all(e, pkglist) == pkglist

\* "pkgs_todo": the packages of the list without a packages record.
pkgs_todo(e, pkglist) == {pkid \in pkglist : ~package_exists(e, pkid)}

\* The position after an architecture is dealt with.
next_arch(d) ==
    [d EXCEPT !.archs = @ - 1, !.pool = "none", !.tasks = <<>>,
              !.pc = IF d.archs = 1 THEN "done" ELSE "arch"]

\* pool.join() returns at once.
pool_joined_at_once(d) == TRUE

\* pool.join() returns when the pool's threads and workers are gone: after
\* close, when every submitted task has run and its callback was called; after
\* terminate, when the workers were killed.
pool_joined(d) ==
    \/ d.pool = "terminate"
    \/ /\ d.pool = "close"
       /\ \A t \in DOMAIN d.tasks : d.tasks[t].st \in TaskOver

\* pool.terminate(): tasks not yet started never run, running workers are
\* killed, results not yet handled are discarded.
pool_terminate(tasks) ==
    [t \in DOMAIN tasks |->
        [tasks[t] EXCEPT !.st =
            CASE @ = "queued" -> "dropped"
              [] @ \in TaskActive -> "killed"
              [] @ \in {"done", "failed"} -> "lost"
              [] OTHER -> @]]

\* sys.exit(5) in handle_error. The pool calls error_callback in its result
\* handler thread: the SystemExit ends that thread, not the process, and the
\* main thread goes on.
sys_exit_in_callback(d) == d

\* handle_error for the task t that raised.
handle_error(d, t) ==
    sys_exit_in_callback(
        [d EXCEPT !.pool = "terminate",
                  !.tasks = [pool_terminate(d.tasks) EXCEPT ![t].st = "error"],
                  !.raised = TRUE])

\* The cache a run finds: a new one, or one of an earlier run.
EarlierCache ==
    set_components(set_components(
        [packages |-> EmptyDb, hints |-> EmptyDb, metadata |-> EmptyDb,
         suites |-> EmptyDb], PKG_A1, <<CPT_1>>), PKG_AB1, <<CPT_2>>)

InitDriver ==
    /\ \E e \in {[packages |-> EmptyDb, hints |-> EmptyDb, metadata |-> EmptyDb,
                  suites |-> EmptyDb], EarlierCache} :
           /\ pkgdb = e.packages
           /\ hintsdb = e.hints
           /\ datadb = e.metadata
           /\ suitesdb = e.suites
    /\ mediafs = {<<>>}
    /\ run = <<>>
    /\ last = [op |-> "__init__"]
    /\ handle = new_handle
    /\ driver = start_driver

Main == driver.pc = "main" /\ UNCHANGED <<tables, mediafs, run>>

\* "if len(params) != ...: sys.exit(1)"
MainArgError ==
    /\ Main
    /\ driver' = exited(driver, EXIT_ARGS)
    /\ UNCHANGED <<handle, last>>

\* "if not ret: sys.exit(2)": initialize found no configuration.
MainInitFailed ==
    /\ Main
    /\ driver' = exited(driver, EXIT_INIT)
    /\ UNCHANGED <<handle, last>>

\* initialize opens the cache; the command starts.
MainInitialize(cmd, archs) ==
    /\ Main
    /\ handle' = open(new_handle, CACHE_DIR)
    /\ last' = [op |-> "open"]
    /\ driver' = [driver EXCEPT !.cmd = cmd,
                                !.pc = IF cmd = "process" THEN "arch" ELSE "cleanup",
                                !.archs = IF cmd = "process" THEN archs ELSE 0]

InProcess(pc) ==
    /\ driver.cmd = "process"
    /\ driver.pc = pc
    /\ UNCHANGED <<tables, mediafs, run, last>>

\* The package list of the next architecture is compared with the cache.
ScanArch ==
    /\ InProcess("arch")
    /\ UNCHANGED handle
    /\ driver' =
          IF ~handle._opened
          THEN exited([driver EXCEPT !.closed_access = TRUE], 1)
          ELSE IF pkgs_todo(Env, PkgList) = {} THEN next_arch(driver)
          ELSE [driver EXCEPT
                   !.pc = "close",
                   !.tasks = [t \in pkgs_todo(Env, PkgList) |->
                                 [st |-> "todo", h |-> new_handle]]]

\* self._cache.close()
CloseCache ==
    /\ InProcess("close")
    /\ handle' = close(handle)
    /\ driver' = [driver EXCEPT !.pc = "pool"]

\* "with mp.Pool(maxtasksperchild=24) as pool"
CreatePool ==
    /\ InProcess("pool")
    /\ UNCHANGED handle
    /\ driver' = [driver EXCEPT !.pc = "submit", !.pool = "run"]

\* The loop over pkgs_todo finds no file for the package.
SkipMissing(t) ==
    /\ InProcess("submit")
    /\ t \in DOMAIN driver.tasks
    /\ driver.tasks[t].st = "todo"
    /\ UNCHANGED handle
    /\ driver' = [driver EXCEPT !.tasks[t].st = "missing"]

\* pool.apply_async: the task is queued with a pickled copy of the extractor
\* and its cache object. On a pool that is no longer running it raises a
\* ValueError in the main thread, which leaves the with block and the program.
Submit(t) ==
    /\ InProcess("submit")
    /\ t \in DOMAIN driver.tasks
    /\ driver.tasks[t].st = "todo"
    /\ UNCHANGED handle
    /\ driver' =
          IF driver.pool # "run" THEN exited(driver, 1)
          ELSE [driver EXCEPT !.tasks[t] = [st |-> "queued", h |-> handle]]

\* pool.close()
PoolClose ==
    /\ InProcess("submit")
    /\ \A t \in DOMAIN driver.tasks : driver.tasks[t].st # "todo"
    /\ UNCHANGED handle
    /\ driver' = [driver EXCEPT !.pc = "join",
                                !.pool = IF @ = "run" THEN "close" ELSE @]

\* pool.join() returns.
PoolJoin ==
    /\ InProcess("join")
    /\ pool_joined(driver)
    /\ UNCHANGED handle
    /\ driver' = [driver EXCEPT !.pc = "reopen"]

\* self._cache.reopen()
ReopenCache ==
    /\ InProcess("reopen")
    /\ handle' = reopen(handle).h
    /\ driver' = [driver EXCEPT !.pc = "write"]

\* The hints and data files of the architecture are written from the cache
\* (get_metadata_for_pkg, get_hints).
WriteOutput ==
    /\ InProcess("write")
    /\ UNCHANGED handle
    /\ driver' =
          IF ~handle._opened
          THEN exited([driver EXCEPT !.closed_access = TRUE], 1)
          ELSE next_arch([driver EXCEPT !.wrote_after_error = driver.raised])

\* process_suite returns and main ends.
ProcessDone ==
    /\ InProcess("done")
    /\ UNCHANGED handle
    /\ driver' = exited(driver, 0)

\* The workers. A task runs extract_metadata in a worker process, on the
\* objects that were pickled into it.

InWorker(t, states) ==
    /\ driver.cmd = "process"
    /\ t \in DOMAIN driver.tasks
    /\ driver.tasks[t].st \in states
    /\ UNCHANGED <<run, last, handle>>

\* A worker takes the task from the queue.
WorkerStart(t) ==
    /\ InWorker(t, {"queued"})
    /\ driver.pool \in {"run", "close"}
    /\ driver' = [driver EXCEPT !.tasks[t].st = "started"]
    /\ UNCHANGED <<tables, mediafs>>

\* MetadataExtractor.reopen_cache: reopen on the extractor's cache object.
reopen_cache(h) == reopen(h)

\* "mde.reopen_cache()", the first statement of extract_metadata.
WorkerReopen(t) ==
    /\ InWorker(t, {"started"})
    /\ driver' = [driver EXCEPT
                     !.tasks[t].h = reopen_cache(@).h,
                     !.tasks[t].st = IF reopen_cache(driver.tasks[t].h).err = None
                                     THEN "open" ELSE "failed"]
    /\ UNCHANGED <<tables, mediafs>>

\* "cpts = mde.process(pkg)": the components are extracted, their icons stored
\* and the package recorded with set_components, on the task's cache object.
WorkerProcess(t, cpts) ==
    /\ InWorker(t, {"open"})
    /\ IF driver.tasks[t].h._dbenv = Some(CACHE_DIR)
       THEN /\ Commit(set_components(Env, t, cpts))
            /\ mediafs' = IF Len(cpts) = 0 THEN mediafs
                          ELSE makedirs(mediafs, icon_path(<<109>>, cpts[1].global_id))
            /\ driver' = [driver EXCEPT !.tasks[t].st = "done"]
       ELSE /\ UNCHANGED <<tables, mediafs>>
            /\ driver' = [driver EXCEPT !.tasks[t].st = "failed",
                                        !.closed_access = TRUE]

\* The task raises an error.
WorkerRaise(t) ==
    /\ InWorker(t, TaskActive)
    /\ driver' = [driver EXCEPT !.tasks[t].st = "failed"]
    /\ UNCHANGED <<tables, mediafs>>

\* handle_results, called by the pool for a task that returned.
HandleResults(t) ==
    /\ InWorker(t, {"done"})
    /\ driver.pool \in {"run", "close"}
    /\ driver' = [driver EXCEPT !.tasks[t].st = "reported"]
    /\ UNCHANGED <<tables, mediafs>>

\* handle_error, called by the pool for a task that raised.
HandleError(t) ==
    /\ InWorker(t, {"failed"})
    /\ driver.pool \in {"run", "close"}
    /\ driver' = handle_error(driver, t)
    /\ UNCHANGED <<tables, mediafs>>

\* A sweep may run anywhere in a run.
may_sweep_anywhere(d) == d.pc # "exit"

\* The cleanup command is the one that runs expire_cache.
may_sweep(d) == d.cmd = "cleanup" /\ d.pc = "cleanup"

\* "gen.expire_cache()" in main.
CleanupCall(pkgids) ==
    /\ may_sweep(driver)
    /\ last.op = "open"
    /\ CallExpireCache(pkgids)

\* expire_cache has returned and main ends.
CleanupDone ==
    /\ driver.cmd = "cleanup"
    /\ driver.pc = "cleanup"
    /\ run = <<>>
    /\ last.op = "step"
    /\ driver' = exited(driver, 0)
    /\ UNCHANGED <<tables, mediafs, run, last, handle>>

NextDriver ==
    \/ MainArgError
    \/ MainInitFailed
    \/ \E cmd \in {"process", "cleanup"}, archs \in 1..MaxArchs :
           MainInitialize(cmd, archs)
    \/ ScanArch
    \/ CloseCache
    \/ CreatePool
    \/ \E t \in PkgList : SkipMissing(t)
    \/ \E t \in PkgList : Submit(t)
    \/ PoolClose
    \/ PoolJoin
    \/ ReopenCache
    \/ WriteOutput
    \/ ProcessDone
    \/ \E t \in PkgList : WorkerStart(t)
    \/ \E t \in PkgList : WorkerReopen(t)
    \/ \E t \in PkgList, cpts \in ListsOf({CPT_1, CPT_GEN}, 1) :
           WorkerProcess(t, cpts)
    \/ \E t \in PkgList : WorkerRaise(t)
    \/ \E t \in PkgList : HandleResults(t)
    \/ \E t \in PkgList : HandleError(t)
    \/ \E pkgids \in SUBSET PkgIds : CleanupCall(pkgids)
    \/ may_sweep(driver) /\ ExpireNext
    \/ may_sweep(driver) /\ StepRemovePackage
    \/ may_sweep(driver) /\ ExpireSweep
    \/ may_sweep(driver) /\ StepRemoveOrphanedComponents
    \/ may_sweep(driver) /\ ExpireMedia
    \/ CleanupDone

SpecDriver == InitDriver /\ [][NextDriver]_vars

----------------------------------------------------------------------------
\* Worker processes that run set_components at the same time, one for each
\* package id, a transaction at a time: LMDB lets one write transaction run
\* at a time, so the transactions of the workers interleave in any order.
\* driver holds the cache the workers found and, for each package id, the
\* component list and the position of its call. The components of one global
\* id are equal in what document generation does with them.

WorkerCpts == {CPT_1, CPT_2, CPT_H}

start_job(cpts) ==
    [cpts |-> cpts, todo |-> cpts, gids |-> <<>>, hints_str |-> <<>>,
     pc |-> IF Len(cpts) = 0 THEN "ignore" ELSE "loop"]

InitWorkers ==
    /\ \E e \in {[packages |-> EmptyDb, hints |-> EmptyDb, metadata |-> EmptyDb,
                  suites |-> EmptyDb], EarlierCache} :
           /\ pkgdb = e.packages
           /\ hintsdb = e.hints
           /\ datadb = e.metadata
           /\ suitesdb = e.suites
           /\ \E jobs \in [PkgIds -> {start_job(cpts) :
                                        cpts \in ListsOf(WorkerCpts, MaxCpts)}] :
                  driver = [pc |-> "workers", found |-> e, jobs |-> jobs]
    /\ mediafs = {<<>>}
    /\ run = <<>>
    /\ last = [op |-> "open"]
    /\ handle = open(new_handle, CACHE_DIR)

InJob(pkgid, pc) ==
    /\ driver.pc = "workers"
    /\ driver.jobs[pkgid].pc = pc
    /\ UNCHANGED <<mediafs, run, last, handle>>

\* set_components of an empty list: set_package_ignore.
JobIgnore(pkgid) ==
    /\ InJob(pkgid, "ignore")
    /\ Commit(set_package_ignore(Env, pkgid))
    /\ driver' = [driver EXCEPT !.jobs[pkgid].pc = "done"]

\* One pass of the loop of a worker's set_components.
JobComponent(pkgid) ==
    /\ InJob(pkgid, "loop")
    /\ LET job == driver.jobs[pkgid]
           st == sc_component([e |-> Env, gids |-> job.gids,
                               hints_str |-> job.hints_str, cpts |-> <<>>],
                              Head(job.todo))
       IN  /\ Commit(st.e)
           /\ driver' = [driver EXCEPT
                            !.jobs[pkgid] =
                                [job EXCEPT !.todo = Tail(@), !.gids = st.gids,
                                            !.hints_str = st.hints_str,
                                            !.pc = IF Tail(job.todo) = <<>>
                                                   THEN "hints" ELSE "loop"]]

JobHints(pkgid) ==
    /\ InJob(pkgid, "hints")
    /\ Commit(set_hints(Env, pkgid, driver.jobs[pkgid].hints_str))
    /\ driver' = [driver EXCEPT !.jobs[pkgid].pc = "record"]

JobRecord(pkgid) ==
    /\ InJob(pkgid, "record")
    /\ Commit(sc_record(Env, pkgid, driver.jobs[pkgid].gids,
                        driver.jobs[pkgid].hints_str))
    /\ driver' = [driver EXCEPT !.jobs[pkgid].pc = "done"]

NextWorkers ==
    \/ \E pkgid \in PkgIds : JobIgnore(pkgid)
    \/ \E pkgid \in PkgIds : JobComponent(pkgid)
    \/ \E pkgid \in PkgIds : JobHints(pkgid)
    \/ \E pkgid \in PkgIds : JobRecord(pkgid)

SpecWorkers == InitWorkers /\ [][NextWorkers]_vars

----------------------------------------------------------------------------
\* The package and suite operations on a cache that has metadata and media.

\* The expiry sweep of expire_cache on its own: get_packages_not_in_set, then
\* remove_package for each id it returned.
ExpirySweep(pkgids) ==
    /\ run = <<>>
    /\ handle._dbenv = Some(CACHE_DIR)
    /\ Commit(expire_loop(Env, get_packages_not_in_set(Env, pkgids)))
    /\ last' = [op |-> "expiry_sweep", pkgids |-> pkgids,
                oldpkgs |-> get_packages_not_in_set(Env, pkgids)]
    /\ UNCHANGED <<mediafs, run, proc>>

NextFrame ==
    \/ \E pkgid \in PkgIds, cpts \in ListsOf({CPT_1}, 1) :
           SetComponents(pkgid, cpts)
    \/ StoreIcon(<<109>>, GID1)
    \/ \E pkgid \in PkgIds : SetPackageIgnore(pkgid)
    \/ \E pkgid \in PkgIds : RemovePackage(pkgid)
    \/ \E pkgname \in {<<97>>, <<97, 98>>} : DeletePackageByName(pkgname)
    \/ \E suite \in SuiteNames : AddPackageToSuite(PKG_A1, suite)
    \/ \E suite \in SuiteNames : RemovePackageFromSuite(PKG_A1, suite)
    \/ \E pkgids \in SUBSET PkgIds : ExpirySweep(pkgids)
    \/ \E pkgset \in SUBSET PkgIds : GetPackagesNotInSet(pkgset)
    \/ RemoveOrphanedComponents
    \/ RemoveOrphanedMedia

SpecFrame == Init /\ [][NextFrame]_vars

----------------------------------------------------------------------------
\* expire_cache a transaction at a time on a cache with hints and suites
\* records, with the process dying inside it. driver keeps the package set of
\* the expire_cache call that was made last and the cache and media it found.

start_sweep(e, fs, pkgids) ==
    [pc |-> "sweep", pkgids |-> pkgids, start |-> [e |-> e, fs |-> fs]]

InitSweep ==
    /\ pkgdb = EmptyDb
    /\ hintsdb = EmptyDb
    /\ datadb = EmptyDb
    /\ suitesdb = EmptyDb
    /\ mediafs = {<<>>}
    /\ run = <<>>
    /\ last = [op |-> "open"]
    /\ handle = open(new_handle, CACHE_DIR)
    /\ driver = start_sweep(Env, mediafs, {})

SweepCall(pkgids) ==
    /\ run = <<>>
    /\ handle._dbenv = Some(CACHE_DIR)
    /\ run' = <<ec_frame(Env, pkgids)>>
    /\ driver' = start_sweep(Env, mediafs, pkgids)
    /\ last' = stepped
    /\ UNCHANGED <<tables, mediafs, handle>>

NextSweep ==
    \/ \E pkgid \in PkgList : SetComponents(pkgid, <<CPT_1>>)
    \/ AddPackageToSuite(PKG_A1, <<115>>)
    \/ \E pkgids \in SUBSET PkgList : SweepCall(pkgids)
    \/ ExpireNext
    \/ StepRemovePackage
    \/ ExpireSweep
    \/ StepRemoveOrphanedComponents
    \/ ExpireMedia
    \/ Crash

SpecSweep == InitSweep /\ [][NextSweep]_vars

----------------------------------------------------------------------------
\* set_components on one package with components that are kept, ignored from
\* the start, disqualified by document generation, and ignored with a hint;
\* the record and the metadata are taken away again by remove_package and the
\* orphan sweep.

SetCpts == {CPT_1, CPT_IGN, CPT_GEN, CPT_IGN_H}

NextComponents ==
    \/ \E cpts \in ListsOf(SetCpts, MaxCpts) : SetComponents(PKG_A1, cpts)
    \/ \E gid \in Gids : SetMetadata(gid, DocOf(gid))
    \/ RemovePackage(PKG_A1)
    \/ RemoveOrphanedComponents

SpecComponents == Init /\ [][NextComponents]_vars

----------------------------------------------------------------------------
\* Reading a package's metadata back. set_components runs a transaction at a
\* time, and a cleanup run of another process on the same cache may make its
\* orphan sweep in between, so that a list can name a global id whose
\* document is gone.

\* get_metadata_for_pkg(pkgid), its result kept in last.
GetMetadataForPkg(pkgid) ==
    /\ run = <<>>
    /\ handle._dbenv = Some(CACHE_DIR)
    /\ last' = [op |-> "get_metadata_for_pkg", pkgid |-> pkgid,
                ret |-> get_metadata_for_pkg(Env, pkgid)]
    /\ UNCHANGED <<tables, mediafs, run, proc>>

\* remove_orphaned_components of another process, between two transactions
\* of this one.
SweepOfOtherRun ==
    \E listing \in Listings(root_entries(mediafs)) :
        LET r == remove_orphaned_components(Env, mediafs, listing)
        IN  /\ run # <<>>
            /\ r.e # Env
            /\ Commit(r.e)
            /\ mediafs' = r.fs
            /\ last' = stepped
            /\ UNCHANGED <<run, proc>>

NextOutput ==
    \/ \E pkgid \in PkgList, cpts \in ListsOf({CPT_1, CPT_2}, MaxCpts) :
           CallSetComponents(pkgid, cpts)
    \/ StepComponent
    \/ StepHints
    \/ StepRecord
    \/ SweepOfOtherRun
    \/ \E pkgid \in PkgList : RemovePackage(pkgid)
    \/ \E pkgid \in PkgList : GetMetadataForPkg(pkgid)

SpecOutput == Init /\ [][NextOutput]_vars

----------------------------------------------------------------------------
\* The media tree with icons of two global ids in two sections, one package
\* that lists them, and the two sweeps that remove media.

NextMedia ==
    \/ \E cpt \in {CPT_1, CPT_2} : SetComponents(PKG_A1, <<cpt>>)
    \/ \E section \in Sections, gid \in Gids : StoreIcon(section, gid)
    \/ RemovePackage(PKG_A1)
    \/ RemoveOrphanedComponents
    \/ RemoveOrphanedMedia

SpecMedia == Init /\ [][NextMedia]_vars

----------------------------------------------------------------------------
\* expire_cache a transaction at a time on a cache with media, where the
\* removal of a media directory can fail.

\* shutil.rmtree raises an OSError in _remove_media_for_gid, called for the
\* orphaned global id the cursor is at. No caller catches it: the exception
\* leaves remove_orphaned_components, expire_cache and main. pending is the
\* stack of calls it went through.
RmtreeFails ==
    /\ Running("remove_orphaned_components")
    /\ Top.keys # <<>>
    /\ index_get(Top.gid_pkg, tostr(Head(Top.keys))) = {}
    /\ glob_gid(mediafs, tostr(Head(Top.keys))) # {}
    /\ run' = <<>>
    /\ last' = [op |-> "raised", err |-> "OSError", pending |-> run]
    /\ UNCHANGED <<tables, mediafs, proc>>

NextFsError ==
    \/ \E cpt \in {CPT_1, CPT_2} : SetComponents(PKG_A1, <<cpt>>)
    \/ \E gid \in Gids : StoreIcon(<<109>>, gid)
    \/ \E pkgids \in SUBSET {PKG_A1} : CallExpireCache(pkgids)
    \/ ExpireNext
    \/ StepRemovePackage
    \/ ExpireSweep
    \/ StepRemoveOrphanedComponents
    \/ RmtreeFails
    \/ ExpireMedia

SpecFsError == Init /\ [][NextFsError]_vars

----------------------------------------------------------------------------
\* Two processes that update the suites record of one package at the same
\* time. Each update is one write transaction: "with self._dbenv.begin(
\* db=self._suitesdb, write=True) as txn" reads the record, and the put is
\* committed when the block is left. driver.lock is LMDB's writer lock and
\* view the suites table the transaction sees.

Updaters == {1, 2}

\* A write transaction begins when no other process holds the writer lock.
may_begin_unlocked(lock) == TRUE

may_begin(lock) == lock = None

\* The update a process makes on the tables it sees.
suite_update(e, u) ==
    IF u.op = "add" THEN add_package_to_suite(e, PKG_A1, u.suite)
    ELSE remove_package_from_suite(e, PKG_A1, u.suite)

InitSuites ==
    /\ pkgdb = EmptyDb
    /\ hintsdb = EmptyDb
    /\ datadb = EmptyDb
    /\ \E found \in {EmptyDb} \cup
                     {add_package_to_suite(
                          [packages |-> EmptyDb, hints |-> EmptyDb,
                           metadata |-> EmptyDb, suites |-> EmptyDb],
                          PKG_A1, suite).suites : suite \in SuiteNames} :
           /\ suitesdb = found
           /\ \E us \in [Updaters -> [op : {"add", "remove"}, suite : SuiteNames,
                                      pc : {"start"}, view : {EmptyDb}]] :
                  driver = [pc |-> "suites", found |-> found, lock |-> None,
                            us |-> us]
    /\ mediafs = {<<>>}
    /\ run = <<>>
    /\ last = [op |-> "open"]
    /\ handle = open(new_handle, CACHE_DIR)

\* self._dbenv.begin(db=self._suitesdb, write=True)
TxnBegin(u) ==
    /\ driver.us[u].pc = "start"
    /\ may_begin(driver.lock)
    /\ driver' = [driver EXCEPT !.lock = Some(u), !.us[u].pc = "txn",
                                !.us[u].view = suitesdb]
    /\ UNCHANGED <<tables, mediafs, run, last, handle>>

\* The body of the with block and its commit: what the update made of the
\* record it read is put into the table.
TxnCommit(u) ==
    /\ driver.us[u].pc = "txn"
    /\ LET key == tobytes(PKG_A1)
           seen == [Env EXCEPT !.suites = driver.us[u].view]
           made == suite_update(seen, driver.us[u]).suites
       IN  suitesdb' = IF made = driver.us[u].view THEN suitesdb
                       ELSE Put(suitesdb, key, made[key])
    /\ driver' = [driver EXCEPT !.lock = IF @ = Some(u) THEN None ELSE @,
                                !.us[u].pc = "done"]
    /\ UNCHANGED <<pkgdb, hintsdb, datadb, mediafs, run, last, handle>>

NextSuites ==
    \/ \E u \in Updaters : TxnBegin(u)
    \/ \E u \in Updaters : TxnCommit(u)

SpecSuites == InitSuites /\ [][NextSuites]_vars

----------------------------------------------------------------------------
\* show_info consuming the generator get_info returns, next to a process that
\* writes to the cache. get_info opens its transaction with write=True: the
\* generator holds LMDB's writer lock from its first step until its cursor
\* is at the end. driver.gen is the suspended generator.

info_idle == [pc |-> "info", lock |-> None, gen |-> None]

InitInfo ==
    /\ pkgdb = EmptyDb
    /\ hintsdb = EmptyDb
    /\ datadb = EmptyDb
    /\ suitesdb = EmptyDb
    /\ mediafs = {<<>>}
    /\ run = <<>>
    /\ last = [op |-> "open"]
    /\ handle = open(new_handle, CACHE_DIR)
    /\ driver = info_idle

\* A write operation, which begins a write transaction.
WriteComponents(pkgid, cpts) ==
    /\ may_begin(driver.lock)
    /\ SetComponents(pkgid, cpts)

\* The first step of the generator: the transaction begins and the cursor is
\* opened.
GetInfoCall(pkgname) ==
    /\ driver.gen = None
    /\ may_begin(driver.lock)
    /\ driver' = [driver EXCEPT
                     !.lock = Some("get_info"),
                     !.gen = Some([pkgname |-> pkgname, keys |-> cursor(pkgdb),
                                   out |-> <<>>])]
    /\ last' = stepped
    /\ UNCHANGED <<tables, mediafs, run, handle>>

\* The cursor goes to its next key, which is yielded if it matches.
GetInfoNext ==
    /\ driver.gen # None
    /\ TheVal(driver.gen).keys # <<>>
    /\ LET gen == TheVal(driver.gen)
       IN  driver' = [driver EXCEPT
                         !.gen = Some([gen EXCEPT
                                          !.keys = Tail(@),
                                          !.out = @ \o gi_scan(pkgdb, <<Head(gen.keys)>>,
                                                                gen.pkgname)])]
    /\ last' = stepped
    /\ UNCHANGED <<tables, mediafs, run, handle>>

\* The cursor is at its end: the with block is left and the loop of
\* show_info ends. ret is all that was yielded.
GetInfoEnd ==
    /\ driver.gen # None
    /\ TheVal(driver.gen).keys = <<>>
    /\ driver' = info_idle
    /\ last' = [op |-> "get_info", pkgname |-> TheVal(driver.gen).pkgname,
                ret |-> TheVal(driver.gen).out]
    /\ UNCHANGED <<tables, mediafs, run, handle>>

NextInfo ==
    \/ \E pkgid \in ScanPkgIds, cpts \in {<<CPT_1>>, <<CPT_1, CPT_2>>} :
           WriteComponents(pkgid, cpts)
    \/ \E pkgname \in PkgNames : GetInfoCall(pkgname)
    \/ GetInfoNext
    \/ GetInfoEnd

SpecInfo == InitInfo /\ [][NextInfo]_vars

----------------------------------------------------------------------------
\* Properties of the cache under sequential calls.

\* The global ids of the list a packages record holds; none for a sentinel.
listed_gids(record) ==
    IF record = IGNORE \/ record = SEEN THEN {}
    ELSE {split(tostr(record), NL)[i] : i \in 1..Len(split(tostr(record), NL))}

\* Some record of the packages table db holds a list that contains gid.
ListedIn(db, gid) == \E key \in DOMAIN db : gid \in listed_gids(db[key])

\* Every global id the tables know: a metadata key or a listed id.
KnownGids ==
    Gids \cup {tostr(k) : k \in DOMAIN datadb}
         \cup UNION {listed_gids(pkgdb[key]) : key \in DOMAIN pkgdb}

HasMetadata(gid) == tobytes(gid) \in DOMAIN datadb

\* The orphan sweep has just run: as a call of its own, or in expire_cache.
AfterOrphanSweep ==
    last.op \in {"remove_orphaned_components", "expire_cache"}

\* C1: after remove_orphaned_components has returned, a global id has a
\* metadata entry if and only if some packages record holds a list that
\* contains it.
C1_ReferentialGc ==
    AfterOrphanSweep =>
        \A gid \in KnownGids : HasMetadata(gid) <=> ListedIn(pkgdb, gid)

\* The sweep deleted an orphan and kept a referenced record.
C1_Witness ==
    /\ last.op = "remove_orphaned_components"
    /\ last.removed # {}
    /\ \E gid \in Gids : HasMetadata(gid) /\ ListedIn(pkgdb, gid)

\* C2: the sweep never deletes the metadata record of a global id that a
\* packages record lists at the time of the sweep (the sweep leaves the
\* packages table as it is, so the lists are those of the state it returns in).
C2_NoReferencedRemoved ==
    AfterOrphanSweep =>
        \A key \in last.removed : ~ListedIn(pkgdb, tostr(key))

\* Two packages listed one global id, the cleanup removed one of them and
\* deleted an orphan, and the shared id still has its metadata.
C2_Witness ==
    /\ last.op = "expire_cache"
    /\ last.removed # {}
    /\ \E old \in last.oldpkgs : \E gid \in Gids :
            /\ gid \in listed_gids(last.before[old])
            /\ ListedIn(pkgdb, gid)
            /\ HasMetadata(gid)

\* The state of a package id as the three readers report it.
ReadState(pkgid) ==
    [exists |-> package_exists(Env, pkgid),
     ignored |-> is_ignored(Env, pkgid),
     gids |-> get_cpt_gids_for_pkg(Env, pkgid)]

\* C4: every package id has no record, the record 'ignore', the record 'seen'
\* or a non-empty list of global ids, and package_exists, is_ignored and
\* get_cpt_gids_for_pkg report that same state; a stored list is read back as
\* the list that was stored.
C4_SentinelExclusive ==
    \A pkgid \in PkgIds :
        LET record == Get(pkgdb, tobytes(pkgid))
        IN  \/ /\ record = None
               /\ ReadState(pkgid) =
                      [exists |-> FALSE, ignored |-> FALSE, gids |-> None]
            \/ /\ record = Some(IGNORE)
               /\ ReadState(pkgid) =
                      [exists |-> TRUE, ignored |-> TRUE, gids |-> None]
            \/ /\ record = Some(SEEN)
               /\ ReadState(pkgid) =
                      [exists |-> TRUE, ignored |-> FALSE, gids |-> None]
            \/ /\ record \notin {None, Some(IGNORE), Some(SEEN)}
               /\ ReadState(pkgid).exists
               /\ ~ReadState(pkgid).ignored
               /\ ReadState(pkgid).gids # None
               /\ LET gids == TheVal(ReadState(pkgid).gids)
                  IN  /\ Len(gids) >= 1
                      /\ \A i \in 1..Len(gids) : gids[i] \in Gids
                      /\ record = Some(tobytes(join(<<NL>>, gids)))

\* One package is 'seen' while the other holds a list of two global ids.
C4_Witness ==
    \E p, q \in PkgIds :
        /\ Get(pkgdb, tobytes(p)) = Some(SEEN)
        /\ get_cpt_gids_for_pkg(Env, q) = Some(<<GID1, GID2>>)

\* C5: set_components with an empty component list leaves the record
\* 'ignore', whatever the record was; then is_ignored and package_exists are
\* true and get_cpt_gids_for_pkg returns None.
C5_EmptyIsIgnore ==
    (last.op = "set_components" /\ last.cpts = <<>>) =>
        /\ Get(pkgdb, tobytes(last.pkgid)) = Some(IGNORE)
        /\ is_ignored(Env, last.pkgid)
        /\ package_exists(Env, last.pkgid)
        /\ get_cpt_gids_for_pkg(Env, last.pkgid) = None

\* The empty list came for a package that had been processed before: its
\* hints record of that run is still there.
C5_Witness ==
    /\ last.op = "set_components"
    /\ last.cpts = <<>>
    /\ get_hints(Env, last.pkgid) = Some(HINT)
    /\ is_ignored(Env, last.pkgid)

\* C6: calling set_components a second time with the same package id and the
\* same component objects leaves the packages, metadata and hints tables as
\* the first call left them.
C6_SetComponentsIdempotent ==
    last.op = "set_components" =>
        LET again == set_components(Env, last.pkgid, last.after)
        IN  /\ again.packages = pkgdb
            /\ again.metadata = datadb
            /\ again.hints = hintsdb

\* The first call generated a document that disqualified one component,
\* stored the other and recorded a hint.
C6_Witness ==
    /\ last.op = "set_components"
    /\ last.after # last.cpts
    /\ get_cpt_gids_for_pkg(Env, last.pkgid) # None
    /\ get_hints(Env, last.pkgid) = Some(HINT)

\* C9: set_components(p1, [g1, g2]) with no ignore reasons and no hints
\* leaves the list g1, g2 in packages[p1] and the documents of g1 and g2 in
\* the metadata table; an expire_cache call whose package set lacks p1
\* leaves no packages record of p1 and no metadata of any global id p1
\* listed that no remaining package lists.
C9_Lifecycle ==
    /\ (last.op = "set_components" /\ last.cpts = <<CPT_1, CPT_2>>) =>
           /\ Get(pkgdb, tobytes(last.pkgid)) =
                  Some(tobytes(join(<<NL>>, <<GID1, GID2>>)))
           /\ get_cpt_gids_for_pkg(Env, last.pkgid) = Some(<<GID1, GID2>>)
           /\ get_metadata(Env, GID1) = Some(DocOf(GID1))
           /\ get_metadata(Env, GID2) = Some(DocOf(GID2))
    /\ last.op = "expire_cache" =>
           \A key \in DOMAIN last.before :
               tostr(key) \notin last.pkgids =>
                   /\ key \notin DOMAIN pkgdb
                   /\ \A gid \in listed_gids(last.before[key]) :
                          ~ListedIn(pkgdb, gid) => ~HasMetadata(gid)

\* The package that held the list g1, g2 was not in the package set: the
\* cleanup removed its record and both metadata records.
C9_Witness ==
    /\ last.op = "expire_cache"
    /\ \E key \in DOMAIN last.before :
           /\ tostr(key) \notin last.pkgids
           /\ last.before[key] = tobytes(join(<<NL>>, <<GID1, GID2>>))
           /\ key \notin DOMAIN pkgdb
    /\ last.removed = {tobytes(GID1), tobytes(GID2)}

\* C7: set_metadata(g, d) followed by get_metadata(g) returns d, for every
\* document d, the empty document included.
C7_RoundTrip ==
    last.op = "set_metadata" => get_metadata(Env, last.gid) = Some(last.doc)

\* The key starts with the package name followed by "/".
HasNamePrefix(key, pkgname) ==
    /\ Len(tostr(key)) > Len(pkgname)
    /\ SubSeq(tostr(key), 1, Len(pkgname)) = pkgname
    /\ tostr(key)[Len(pkgname) + 1] = SLASH

\* The keys the three package tables hold.
PkgTableKeys == DOMAIN pkgdb \cup DOMAIN hintsdb \cup DOMAIN suitesdb

\* The step takes key out of the three package tables.
Loses(key) ==
    /\ key \notin DOMAIN pkgdb'
    /\ key \notin DOMAIN hintsdb'
    /\ key \notin DOMAIN suitesdb'

\* The step leaves the entries of key in the three package tables as they are.
Keeps(key) ==
    /\ Get(pkgdb', key) = Get(pkgdb, key)
    /\ Get(hintsdb', key) = Get(hintsdb, key)
    /\ Get(suitesdb', key) = Get(suitesdb, key)

\* C3: the expiry sweep over a packages table with key set K and a current
\* set S takes the packages, hints and suites entries of every id in K \ S
\* and leaves the entries of every other id, those of K \cap S among them,
\* unchanged.
C3_ExpirySweep ==
    [][last'.op = "expire_cache" =>
          \A key \in PkgTableKeys :
              IF key \in DOMAIN pkgdb /\ tostr(key) \notin last'.pkgids
              THEN Loses(key) ELSE Keeps(key)]_vars

\* The sweep removed a package that had a suites entry and left a package of
\* the current set with its three entries.
C3_Witness ==
    /\ last.op = "expire_cache"
    /\ \E old \in last.oldpkgs : old \notin PkgTableKeys
    /\ \E pkgid \in last.pkgids :
           /\ tobytes(pkgid) \in DOMAIN last.before
           /\ tobytes(pkgid) \in DOMAIN pkgdb
           /\ tobytes(pkgid) \in DOMAIN hintsdb
           /\ tobytes(pkgid) \in DOMAIN suitesdb

\* C8: delete_package_by_name(name) takes out of the packages, hints and
\* suites tables every key that starts with name and "/", leaves every other
\* key with its value, and returns true exactly when one of the three tables
\* held such a key.
C8_PrefixDeletion ==
    [][last'.op = "delete_package_by_name" =>
          /\ \A key \in PkgTableKeys :
                 IF HasNamePrefix(key, last'.pkgname)
                 THEN Loses(key) ELSE Keeps(key)
          /\ last'.ret <=>
                 \E key \in PkgTableKeys : HasNamePrefix(key, last'.pkgname)]_vars

\* Deleting "a" returned true and left the records of "ab/1".
C8_Witness ==
    /\ last.op = "delete_package_by_name"
    /\ last.pkgname = <<97>>
    /\ last.ret
    /\ tobytes(PKG_AB1) \in DOMAIN pkgdb \cap DOMAIN hintsdb \cap DOMAIN suitesdb
    /\ tobytes(PKG_A1) \notin PkgTableKeys

\* C10: in every state, between the transactions of a call and after a crash
\* included, every global id in the list of a packages record has an entry in
\* the metadata table.
C10_ListedHaveMetadata ==
    \A key \in DOMAIN pkgdb :
        \A gid \in listed_gids(pkgdb[key]) : HasMetadata(gid)

\* The process died inside set_components after a document was stored and
\* before the packages record was written, while another record holds a list.
C10_Witness ==
    /\ last.op = "crash"
    /\ \E gid \in Gids : HasMetadata(gid) /\ ~ListedIn(pkgdb, gid)
    /\ \E gid \in Gids : HasMetadata(gid) /\ ListedIn(pkgdb, gid)

\* C11: close on a handle that is not open and reopen on an open handle
\* change nothing; reopen on a closed handle that was opened before opens the
\* environment at the path the last open recorded; the recorded path changes
\* only by open; and the handle goes from closed to open only by open or
\* reopen and from open to closed only by close.
C11_HandleLifecycle ==
    [][/\ (last'.op = "close" /\ ~handle._opened) => handle' = handle
       /\ last'.op = "close" => ~handle'._opened /\ handle'._dbenv = None
       /\ (last'.op = "reopen" /\ handle._opened) => handle' = handle
       /\ (last'.op = "reopen" /\ ~handle._opened /\ handle.cache_dir # None) =>
              /\ handle'._opened
              /\ handle'._dbenv = handle.cache_dir
              /\ last'.err = None
       /\ last'.op = "open" =>
              /\ handle'._opened
              /\ handle'.cache_dir = Some(last'.cachedir)
              /\ handle'._dbenv = Some(last'.cachedir)
       /\ handle'.cache_dir # handle.cache_dir => last'.op = "open"
       /\ (handle'._opened /\ ~handle._opened) => last'.op \in {"open", "reopen"}
       /\ (~handle'._opened /\ handle._opened) => last'.op = "close"
       /\ handle'._opened <=> handle'._dbenv # None]_vars

\* reopen has just opened the environment again, at the second directory,
\* which the last open had recorded.
C11_Witness ==
    /\ last.op = "reopen"
    /\ last.err = None
    /\ handle._opened
    /\ handle._dbenv = Some(<<100>>)
    /\ pkgdb # EmptyDb

\* C12: every cache operation invoked while the handle is not open fails
\* with an error.
C12_ClosedCallFails ==
    last.op = "closed_call" => last.err # None

\* A worker is running a task.
WorkerRunning ==
    \E t \in DOMAIN driver.tasks : driver.tasks[t].st \in TaskActive

\* C13: in process_suite the main process closes its handle before it creates
\* the pool and opens it again only after pool.close() and pool.join(): while
\* the pool exists and while a worker runs the handle of the main process is
\* not open; every task has reopened its own handle before it works on the
\* store; and no cache operation, of the main process or of a task, meets a
\* handle that is not open.
C13_ForkProtocol ==
    /\ driver.pc \in {"pool", "submit", "join", "reopen"} => ~handle._opened
    /\ WorkerRunning => ~handle._opened
    /\ (driver.cmd = "process" /\ handle._opened) =>
           /\ driver.pc \in {"arch", "close", "write", "done", "exit"}
           /\ driver.pool \in {"none", "close", "terminate"}
    /\ \A t \in DOMAIN driver.tasks :
           driver.tasks[t].st \in {"open", "done", "reported"} =>
               driver.tasks[t].h._dbenv = Some(CACHE_DIR)
    /\ ~driver.closed_access

\* The pool was joined after a task had stored its package, and the main
\* process has its handle open again to write the output.
C13_Witness ==
    /\ driver.pc = "write"
    /\ handle._opened
    /\ \E t \in DOMAIN driver.tasks :
           /\ driver.tasks[t].st = "reported"
           /\ package_exists(Env, t)

\* C14: once a task has raised and handle_error has run, the run writes no
\* output and ends with exit status 5.
C14_FailFast ==
    driver.raised =>
        /\ ~driver.wrote_after_error
        /\ driver.pc = "exit" => driver.exit = Some(EXIT_WORKER)

RECURSIVE one_after_another(_, _, _)
one_after_another(e, jobs, order) ==
    IF order = <<>> THEN e
    ELSE one_after_another(set_components(e, Head(order), jobs[Head(order)].cpts),
                           jobs, Tail(order))

AllJobsDone ==
    driver.pc = "workers" /\ \A pkgid \in PkgIds : driver.jobs[pkgid].pc = "done"

PackageOps ==
    {"remove_package", "expiry_sweep", "delete_package_by_name",
     "add_package_to_suite", "remove_package_from_suite", "set_package_ignore"}

\* C17: remove_package, the expiry sweep, delete_package_by_name,
\* add_package_to_suite, remove_package_from_suite and set_package_ignore
\* leave the metadata table and the media tree as they are, and a step that
\* takes a record out of the metadata table is remove_orphaned_components.
C17_MetadataFrame ==
    [][/\ last'.op \in PackageOps => datadb' = datadb /\ mediafs' = mediafs
       /\ DOMAIN datadb \ DOMAIN datadb' # {} =>
              last'.op = "remove_orphaned_components"]_vars

\* The package that listed a component was removed: the component's
\* metadata and media are still there, listed by no package.
C17_Witness ==
    /\ last.op \in {"remove_package", "delete_package_by_name", "expiry_sweep"}
    /\ pkgdb = EmptyDb
    /\ HasMetadata(GID1)
    /\ glob_gid(mediafs, GID1) # {}

\* C18: when the process has died inside expire_cache, running expire_cache
\* again with the same package set leaves the tables and the media that one
\* uninterrupted run leaves from where the first run began.
C18_SweepRerun ==
    last.op = "crash" =>
        LET again == expire_cache(Env, mediafs, driver.pkgids, <<>>, <<>>)
            once == expire_cache(driver.start.e, driver.start.fs,
                                 driver.pkgids, <<>>, <<>>)
        IN  again = once

\* The tables after the step.
EnvAfter ==
    [packages |-> pkgdb', hints |-> hintsdb', metadata |-> datadb',
     suites |-> suitesdb']

\* C19: a package with no suites record is in no suite; add_package_to_suite
\* puts the package in the suite and remove_package_from_suite takes it out,
\* each leaving its membership in every other suite and the packages table
\* as they were.
C19_SuiteMembership ==
    [][/\ \A pkgid \in PkgIds, suite \in SuiteNames :
              tobytes(pkgid) \notin DOMAIN suitesdb =>
                  ~package_in_suite(Env, pkgid, suite)
       /\ last'.op \in {"add_package_to_suite", "remove_package_from_suite"} =>
              /\ package_in_suite(EnvAfter, last'.pkgid, last'.suite)
                     = (last'.op = "add_package_to_suite")
              /\ \A other \in SuiteNames \ {last'.suite} :
                     package_in_suite(EnvAfter, last'.pkgid, other)
                         = package_in_suite(Env, last'.pkgid, other)
              /\ pkgdb' = pkgdb]_vars

\* A package in both suites has been taken out of one and is still in the
\* other, its packages record in place.
C19_Witness ==
    /\ last.op = "remove_package_from_suite"
    /\ \E other \in SuiteNames \ {last.suite} :
           package_in_suite(Env, last.pkgid, other)
    /\ tobytes(last.pkgid) \in DOMAIN pkgdb

\* C20: get_packages_not_in_set(S) returns the keys of the packages table
\* that are the id of no member of S, every key when S is empty or None, and
\* changes no table.
C20_PackagesNotInSet ==
    [][last'.op = "get_packages_not_in_set" =>
           /\ last'.ret = DOMAIN pkgdb \ {tobytes(pkgid) : pkgid \in last'.pkgset}
           /\ last'.pkgset = {} => last'.ret = DOMAIN pkgdb
           /\ tables' = tables]_vars

\* The call with an empty set on a table of two packages, and the call with
\* a set that holds one of two keys.
C20_Witness ==
    /\ last.op = "get_packages_not_in_set"
    /\ Cardinality(DOMAIN pkgdb) = 2
    /\ \/ last.pkgset = {} /\ last.ret = DOMAIN pkgdb
       \/ Cardinality(last.ret) = 1 /\ last.pkgset # {}

\* The tasks the main process may still hand to the pool, or has handed to it
\* and no worker has finished.
TaskPending == {"todo", "queued", "started", "open"}

\* C21: the packages process_suite takes up for an architecture are the
\* packages of the list that have no packages record; a package it hands to
\* the pool is one of these, and has no record while its task is pending; by
\* pool.close() each of them was handed to the pool or had no file in the
\* archive, unless the pool was terminated before.
C21_SubmitsUnrecorded ==
    [][/\ driver.pc = "arch" /\ driver'.pc = "close" =>
              DOMAIN driver'.tasks =
                  {pkid \in PkgList : tobytes(pkid) \notin DOMAIN pkgdb}
       /\ \A t \in DOMAIN driver'.tasks :
              driver'.tasks[t].st \in TaskPending =>
                  tobytes(t) \notin DOMAIN pkgdb'
       /\ driver.pc = "submit" /\ driver'.pc = "join" =>
              \A t \in DOMAIN driver.tasks : driver.tasks[t].st # "todo"]_vars

\* The second architecture of a run: the first package was recorded as seen
\* by its worker and is left out, the other is handed to the pool.
C21_Witness ==
    /\ driver.pc = "submit"
    /\ Get(pkgdb, tobytes(PKG_A1)) = Some(SEEN)
    /\ DOMAIN driver.tasks = {PKG_A2}
    /\ driver.tasks[PKG_A2].st = "queued"

\* C21 as stated: by pool.close() every package of the list without a
\* packages record was handed to the pool.
C21_AllSubmitted ==
    driver.pc = "join" /\ ~driver.raised =>
        \A t \in DOMAIN driver.tasks : driver.tasks[t].st # "missing"

\* The global ids of the components that have no ignore reason, and the hint
\* output of all components, both in component order.
RECURSIVE kept_gids(_)
kept_gids(cpts) ==
    IF cpts = <<>> THEN <<>>
    ELSE (IF has_ignore_reason(Head(cpts)) THEN <<>>
          ELSE <<Head(cpts).global_id>>) \o kept_gids(Tail(cpts))

RECURSIVE all_hints(_)
all_hints(cpts) ==
    IF cpts = <<>> THEN <<>>
    ELSE get_hints_yaml(Head(cpts)) \o all_hints(Tail(cpts))

\* A set_components call with a non-empty component list has returned.
SetComponentsStep == last'.op = "set_components" /\ last'.cpts # <<>>

\* C22: set_components with a non-empty component list ends with the kept
\* ids, in component order, in packages[p]; or, when none was kept and there
\* are hints, with 'seen'; or else with the packages table as it was, so that
\* a package without a record has none after it.
C22_ThreeOutcomes ==
    [][SetComponentsStep =>
           LET kept == kept_gids(last'.after)
               record == Get(pkgdb', tobytes(last'.pkgid))
           IN  CASE kept # <<>> -> record = Some(tobytes(join(<<NL>>, kept)))
                 [] kept = <<>> /\ all_hints(last'.after) # <<>> ->
                        record = Some(SEEN)
                 [] OTHER ->
                        /\ pkgdb' = pkgdb
                        /\ ~package_exists(Env, last'.pkgid) =>
                               ~package_exists(EnvAfter, last'.pkgid)]_vars

\* A package without a record was given one component that has an ignore
\* reason and no hints, and still has no record.
C22_Witness ==
    /\ last.op = "set_components"
    /\ last.cpts = <<CPT_IGN>>
    /\ ~package_exists(Env, last.pkgid)
    /\ get_hints(Env, last.pkgid) # None

\* C23: a component that has an ignore reason when set_components returns,
\* from the start or from the generation of its document, adds no entry for
\* its global id to the package's list, and no metadata record is written
\* for a global id whose components in the call all have an ignore reason.
C23_IgnoredNotKept ==
    [][SetComponentsStep =>
           LET after == last'.after
               Positions(gid, ignored) ==
                   {i \in 1..Len(after) : /\ after[i].global_id = gid
                                          /\ has_ignore_reason(after[i]) = ignored}
               record == get_cpt_gids_for_pkg(EnvAfter, last'.pkgid)
               listed == IF record = None \/ kept_gids(after) = <<>> THEN <<>>
                         ELSE TheVal(record)
           IN  \A gid \in Gids :
                   /\ Cardinality({i \in 1..Len(listed) : listed[i] = gid})
                          = Cardinality(Positions(gid, FALSE))
                   /\ Positions(gid, FALSE) = {} =>
                          Get(datadb', tobytes(gid)) = Get(datadb, tobytes(gid))]_vars

\* Document generation disqualified the only component: no metadata record
\* of its global id was written and the package is recorded as seen.
C23_Witness ==
    /\ last.op = "set_components"
    /\ last.cpts = <<CPT_GEN>>
    /\ has_ignore_reason(last.after[1])
    /\ ~HasMetadata(GID2)
    /\ Get(pkgdb, tobytes(last.pkgid)) = Some(SEEN)

\* C24: set_components with a non-empty component list replaces hints[p] by
\* the hint output of all its components in component order, kept or not.
C24_HintsOverwritten ==
    [][SetComponentsStep =>
           Get(hintsdb', tobytes(last'.pkgid)) =
               Some(tobytes(all_hints(last'.after)))]_vars

\* Neither component was kept; the hints of both are stored in their order
\* over the hints of an earlier call.
C24_Witness ==
    /\ last.op = "set_components"
    /\ last.cpts = <<CPT_IGN_H, CPT_GEN>>
    /\ kept_gids(last.after) = <<>>
    /\ Get(hintsdb, tobytes(last.pkgid)) = Some(tobytes(HINT_I \o HINT))

\* C25: get_cpt_gids_for_pkg returns None for a package without a record and
\* for the records 'ignore' and 'seen'; after a set_components call that kept
\* global ids it returns those ids in the order they were kept.
C25_GidsReadBack ==
    /\ \A pkgid \in PkgIds :
           Get(pkgdb, tobytes(pkgid)) \in {None, Some(IGNORE), Some(SEEN)} =>
               get_cpt_gids_for_pkg(Env, pkgid) = None
    /\ (last.op = "set_components" /\ kept_gids(last.after) # <<>>) =>
           get_cpt_gids_for_pkg(Env, last.pkgid) = Some(kept_gids(last.after))

\* Two components were kept, the second with a global id that the first does
\* not have, and another package has no record.
C25_Witness ==
    /\ last.op = "set_components"
    /\ Len(kept_gids(last.after)) = 2
    /\ get_cpt_gids_for_pkg(Env, last.pkgid) = Some(<<GID2, GID1>>)
    /\ \E pkgid \in PkgIds : Get(pkgdb, tobytes(pkgid)) = None

\* The documents the metadata table holds for the global ids of a list, one
\* after another.
RECURSIVE docs_in_order(_)
docs_in_order(gids) ==
    IF gids = <<>> THEN <<>>
    ELSE (IF HasMetadata(Head(gids)) THEN tostr(datadb[tobytes(Head(gids))])
          ELSE <<>>) \o docs_in_order(Tail(gids))

\* C26: get_metadata_for_pkg returns, for a package with a list of global
\* ids, the documents of the listed ids that have a metadata record, joined
\* in list order, and changes no table.
C26_MetadataForPkg ==
    [][last'.op = "get_metadata_for_pkg" =>
           /\ tables' = tables
           /\ LET gids == get_cpt_gids_for_pkg(Env, last'.pkgid)
              IN  gids # None =>
                      last'.ret = Some(docs_in_order(TheVal(gids)))]_vars

\* The package lists two global ids; the document of the first is gone and
\* the result is the document of the second.
C26_Witness ==
    /\ last.op = "get_metadata_for_pkg"
    /\ get_cpt_gids_for_pkg(Env, last.pkgid) = Some(<<GID1, GID2>>)
    /\ ~HasMetadata(GID1)
    /\ last.ret = Some(DocOf(GID2))

\* The packages table holds no package outside the package set of the
\* expire_cache call in progress.
ExpiryFinished ==
    \A key \in DOMAIN pkgdb : tostr(key) \in driver.pkgids

\* Every metadata record is of a global id that a package lists.
OrphansFinished ==
    \A key \in DOMAIN datadb : ListedIn(pkgdb, tostr(key))

\* C27: in expire_cache, remove_orphaned_components is called, and deletes
\* metadata, only when every stale package has been removed, and
\* remove_orphaned_media runs only when, besides, the orphan sweep has
\* returned and left no unlisted metadata record.
C27_SweepOrder ==
    [][/\ (run # <<>> /\ Len(run') > Len(run)
              /\ Head(run').op = "remove_orphaned_components") =>
              ExpiryFinished
       /\ (run # <<>> /\ DOMAIN datadb \ DOMAIN datadb' # {}) =>
              ExpiryFinished /\ Top.op = "remove_orphaned_components"
       /\ (run # <<>> /\ Top.op = "expire_cache" /\ Top.phase = "media"
              /\ run' = <<>> /\ last'.op = "step") =>
              ExpiryFinished /\ OrphansFinished]_vars

\* The expiry and the orphan sweep of the call have removed the package and
\* its metadata, and the media sweep is next.
C27_Witness ==
    /\ run # <<>>
    /\ Top.op = "expire_cache"
    /\ Top.phase = "media"
    /\ driver.start.e.packages # EmptyDb
    /\ driver.start.e.metadata # EmptyDb
    /\ pkgdb = EmptyDb
    /\ datadb = EmptyDb

\* C28: after remove_orphaned_components no media directory is left, in any
\* section, for a global id whose metadata record the sweep deleted.
C28_MediaOfDeletedGone ==
    last.op = "remove_orphaned_components" =>
        \A gidkey \in last.removed : glob_gid(mediafs, tostr(gidkey)) = {}

\* The global id of a directory at or below component-id depth.
gid_of(d) == join(<<SLASH>>, SubSeq(d, 2, 5))

\* C29: when remove_orphaned_media has returned, every directory at
\* component-id depth is of a global id that has a metadata record, and the
\* sweep has removed nothing of a global id that has one.
C29_OrphanedMedia ==
    [][last'.op = "remove_orphaned_media" =>
           /\ \A d \in mediafs' : Len(d) = 5 => HasMetadata(gid_of(d))
           /\ \A d \in mediafs \ mediafs' :
                  Len(d) >= 5 => ~HasMetadata(gid_of(d))
           /\ tables' = tables]_vars

\* The sweep took the media of a global id without metadata out of both
\* sections and left the media of the one that has metadata.
C29_Witness ==
    /\ last.op = "remove_orphaned_media"
    /\ ~HasMetadata(GID1)
    /\ HasMetadata(GID2)
    /\ glob_gid(mediafs, GID1) = {}
    /\ Cardinality(glob_gid(mediafs, GID2)) = 2
    /\ \E section \in Sections : listdir_empty(mediafs, <<section, <<120>>, <<121>>, <<122>>>>) = FALSE

\* The directory d has an entry in the tree fs.
HasEntry(fs, d) ==
    \E x \in fs : Len(x) = Len(d) + 1 /\ SubSeq(x, 1, Len(d)) = d

\* C30: a sweep that removes media removes, above the media directories it
\* takes, only directories among the three nearest ancestors that are left
\* without an entry; it removes no directory that keeps an entry, no media
\* directory of a global id that still has metadata, and neither the media
\* root nor a section directory.
C30_BoundedCleanup ==
    [][last'.op \in {"remove_orphaned_components", "remove_orphaned_media"} =>
           \A d \in mediafs \ mediafs' :
               /\ Len(d) >= 2
               /\ Len(d) >= 5 => tobytes(gid_of(d)) \notin DOMAIN datadb'
               /\ Len(d) < 5 =>
                      /\ ~HasEntry(mediafs', d)
                      /\ \E m \in mediafs \ mediafs' :
                             Len(m) = 5 /\ SubSeq(m, 1, Len(d)) = d
               /\ ~\E x \in mediafs' :
                      Len(x) > Len(d) /\ SubSeq(x, 1, Len(d)) = d]_vars

\* A sweep took the only media directory of one section with its three
\* ancestors and left the section directory, and kept the ancestors it
\* shares with the media of the other global id in the other section.
C30_Witness ==
    /\ last.op \in {"remove_orphaned_components", "remove_orphaned_media"}
    /\ \E s1, s2 \in Sections :
           /\ s1 # s2
           /\ <<s1>> \in mediafs
           /\ ~HasEntry(mediafs, <<s1>>)
           /\ media_path(s2, GID2) \in mediafs
           /\ media_path(s2, GID1) \notin mediafs
           /\ ~HasMetadata(GID1)

\* C31: when the removal of a media directory has failed in
\* remove_orphaned_components, the sweep and expire_cache are still in
\* progress: the next candidate and the media sweep are still to come.
C31_SweepSurvivesError ==
    last.op = "raised" =>
        /\ run # <<>>
        /\ \E i \in 1..Len(run) : run[i].op = "expire_cache"

\* Both processes have committed.
UpdatesDone == \A u \in Updaters : driver.us[u].pc = "done"

\* The suites table after the update of process u and then that of v, on the
\* table the two found.
one_then_other(u, v) ==
    suite_update(suite_update([Env EXCEPT !.suites = driver.found],
                              driver.us[u]), driver.us[v]).suites

\* C32: when two processes have updated the suites record of one package at
\* the same time, the record is what the two updates give one after the
\* other, in one of the two orders.
C32_NoLostUpdate ==
    UpdatesDone => suitesdb \in {one_then_other(1, 2), one_then_other(2, 1)}

\* Two processes added different suites to a package that had no record, and
\* the package is in both.
C32_Witness ==
    /\ UpdatesDone
    /\ driver.found = EmptyDb
    /\ driver.us[1].op = "add"
    /\ driver.us[2].op = "add"
    /\ driver.us[1].suite # driver.us[2].suite
    /\ \A suite \in SuiteNames : package_in_suite(Env, PKG_A1, suite)

\* C33: remove_package_from_suite keeps the suites record of the package,
\* which holds the empty set when the last suite was removed, and writes no
\* record for a package that has none.
C33_EmptySetStays ==
    [][last'.op = "remove_package_from_suite" =>
           LET key == tobytes(last'.pkgid)
           IN  IF key \notin DOMAIN suitesdb THEN suitesdb' = suitesdb
               ELSE /\ DOMAIN suitesdb' = DOMAIN suitesdb
                    /\ yaml_load(suitesdb[key]) \subseteq {last'.suite} =>
                           suitesdb'[key] = tobytes(yaml_dump({}))]_vars

\* The only suite of the package was removed: its record is the text of an
\* empty set.
C33_Witness ==
    /\ last.op = "remove_package_from_suite"
    /\ Get(suitesdb, tobytes(last.pkgid)) =
           Some(YAML_SET_OPEN \o YAML_SET_CLOSE)

\* The package is in no suite: it has no suites record or an empty set.
InNoSuite(key) ==
    key \notin DOMAIN suitesdb \/ yaml_load(suitesdb[key]) = {}

\* C34: remove_orphaned_components and remove_orphaned_media leave the
\* packages and suites tables as they are, and the metadata of every global
\* id that a package lists, also of a package that is in no suite.
C34_SuitesNotRead ==
    [][last'.op \in {"remove_orphaned_components", "remove_orphaned_media"} =>
           /\ pkgdb' = pkgdb
           /\ suitesdb' = suitesdb
           /\ \A key \in DOMAIN pkgdb :
                  InNoSuite(key) =>
                      \A gid \in listed_gids(pkgdb[key]) :
                          Get(datadb', tobytes(gid)) = Get(datadb, tobytes(gid))]_vars

\* An orphan sweep ran while a package whose suites record is the empty set
\* and a package without a suites record listed a global id, which has its
\* metadata.
C34_Witness ==
    /\ last.op = "remove_orphaned_components"
    /\ \E key1, key2 \in DOMAIN pkgdb :
           /\ key1 \in DOMAIN suitesdb
           /\ yaml_load(suitesdb[key1]) = {}
           /\ key2 \notin DOMAIN suitesdb
           /\ GID1 \in listed_gids(pkgdb[key1])
           /\ GID1 \in listed_gids(pkgdb[key2])
    /\ HasMetadata(GID1)

\* The pairs for the keys of the packages table that start with pkgname and
\* a "/", in key order: what follows the "/" and the lines of the record.
info_pairs(pkgname) ==
    LET keys == SortedKeys(name_keys(pkgdb, pkgname))
    IN  [i \in 1..Len(keys) |->
            <<SubSeq(tostr(keys[i]), Len(pkgname) + 2, Len(tostr(keys[i]))),
              split(tostr(pkgdb[keys[i]]), NL)>>]

\* C35: a get_info(name) sequence consumed to its end has yielded one pair
\* for each packages key that starts with name and "/", the rest of the key
\* and the lines of the record, whatever was consumed before; no step of it
\* changes a table.
C35_InfoPairs ==
    [][/\ last'.op = "get_info" =>
              last'.ret = info_pairs(last'.pkgname) /\ tables' = tables
       /\ driver.gen # None => tables' = tables]_vars

\* get_info for the name a gave the two versions of a, one of them with a
\* record of two lines, and not the package ab.
C35_Witness ==
    /\ last.op = "get_info"
    /\ last.pkgname = <<97>>
    /\ Len(last.ret) = 2
    /\ last.ret[1] = <<<<49>>, <<GID1, GID2>>>>
    /\ tobytes(PKG_AB1) \in DOMAIN pkgdb

\* C36: after the expiry sweep of expire_cache no hints record and no suites
\* record is left for a package id outside the package set.
C36_NoStaleHintsOrSuites ==
    last.op = "expiry_sweep" =>
        \A key \in DOMAIN hintsdb \cup DOMAIN suitesdb :
            tostr(key) \in last.pkgids

----------------------------------------------------------------------------
\* prepopulate_cache. A file name of the Contents file is modelled by the
\* marker it contains, "other" when it contains none.

Markers == {"usr/share/applications/", "usr/share/appdata/", "/pkgconfig/"}

FileNames == Markers \cup {"other"}

\* The file lists of a package: it has an entry in pkid_filelist when the
\* Contents file names at least one file of it.
FileLists == [1..1 -> FileNames] \cup [1..2 -> FileNames]

\* ignore is True until a file with one of the markers is found.
RECURSIVE pc_ignore(_)
pc_ignore(filelist) ==
    IF filelist = <<>> THEN TRUE
    ELSE IF Head(filelist) \in Markers THEN FALSE
    ELSE pc_ignore(Tail(filelist))

\* The loop body that does not ask whether the package exists.
pc_entry_unchecked(e, pkid, filelist) ==
    IF ~pc_ignore(filelist) THEN e
    ELSE IF is_ignored(e, pkid) THEN e
    ELSE set_package_ignore(e, pkid)

\* One entry of pkid_filelist.
pc_entry(e, pkid, filelist) ==
    IF ~pc_ignore(filelist) THEN e
    ELSE IF is_ignored(e, pkid) THEN e
    ELSE IF package_exists(e, pkid) THEN e
    ELSE set_package_ignore(e, pkid)

\* The entries are distinct package ids: their order has no effect.
RECURSIVE pc_loop(_, _, _)
pc_loop(e, pkid_filelist, todo) ==
    IF todo = {} THEN e
    ELSE LET pkid == CHOOSE x \in todo : TRUE
         IN  pc_loop(pc_entry(e, pkid, pkid_filelist[pkid]), pkid_filelist,
                     todo \ {pkid})

prepopulate_cache(e, pkid_filelist) ==
    pc_loop(e, pkid_filelist, DOMAIN pkid_filelist)

\* The Contents files of a suite: some packages of the list with their files.
ContentsFiles == UNION {[ps -> FileLists] : ps \in SUBSET PkgList}

\* ignorable holds the package ids the loop did not skip for their files.
PrepopulateCache(pkid_filelist) ==
    /\ run = <<>>
    /\ handle._dbenv = Some(CACHE_DIR)
    /\ UNCHANGED proc
    /\ Commit(prepopulate_cache(Env, pkid_filelist))
    /\ UNCHANGED <<mediafs, run>>
    /\ last' = [op |-> "prepopulate_cache",
                ignorable |-> {pkid \in DOMAIN pkid_filelist :
                                   pc_ignore(pkid_filelist[pkid])}]

NextPrepopulate ==
    \/ \E pkgid \in PkgList, cpts \in {<<CPT_1>>, <<CPT_1, CPT_2>>, <<CPT_IGN_H>>} :
           SetComponents(pkgid, cpts)
    \/ \E pkid_filelist \in ContentsFiles : PrepopulateCache(pkid_filelist)

SpecPrepopulate == Init /\ [][NextPrepopulate]_vars

\* C39: prepopulate_cache leaves every packages record that exists as it is,
\* writes 'ignore' only for package ids without a record whose files it found
\* ignorable, and leaves the metadata and the hints alone.
C39_KeepsRecords ==
    [][last'.op = "prepopulate_cache" =>
          /\ \A key \in DOMAIN pkgdb :
                 key \in DOMAIN pkgdb' /\ pkgdb'[key] = pkgdb[key]
          /\ \A key \in DOMAIN pkgdb' \ DOMAIN pkgdb :
                 pkgdb'[key] = IGNORE /\ tostr(key) \in last'.ignorable
          /\ datadb' = datadb
          /\ hintsdb' = hintsdb]_vars

\* A package with a component list was found ignorable, another was ignored.
C39_Witness ==
    /\ last.op = "prepopulate_cache"
    /\ \E pkid \in last.ignorable :
           package_exists(Env, pkid) /\ ~is_ignored(Env, pkid)
    /\ \E pkid \in last.ignorable : is_ignored(Env, pkid)

----------------------------------------------------------------------------
\* remove_processed.

\* The loop body that does not ask whether the package is ignored.
rpr_entry_ignored_too(e, pkid) ==
    IF ~package_exists(e, pkid) THEN e
    ELSE remove_package(e, pkid)

\* One package of the suite's package index.
rpr_entry(e, pkid) ==
    IF is_ignored(e, pkid) THEN e
    ELSE IF ~package_exists(e, pkid) THEN e
    ELSE remove_package(e, pkid)

\* A second visit of a package finds no record: the order has no effect.
RECURSIVE rpr_loop(_, _)
rpr_loop(e, todo) ==
    IF todo = {} THEN e
    ELSE LET pkid == CHOOSE x \in todo : TRUE
         IN  rpr_loop(rpr_entry(e, pkid), todo \ {pkid})

\* suite is what self._suites_data.get(suite_name) gave, here the packages of
\* its index files. The call returns False for a suite it does not know and
\* falls off its end otherwise.
remove_processed(e, fs, suite, listing) ==
    IF suite = None THEN [e |-> e, fs |-> fs, ret |-> "False"]
    ELSE LET e1 == rpr_loop(e, TheVal(suite))
             st2 == remove_orphaned_components(e1, fs, listing)
             st3 == remove_orphaned_media(st2.e, st2.fs, listing, listing)
         IN  [e |-> st3.e, fs |-> st3.fs, ret |-> "None"]

RemoveProcessed(suite) ==
    \E listing \in Listings(root_entries(mediafs)) :
        LET r == remove_processed(Env, mediafs, suite, listing)
        IN  /\ run = <<>>
            /\ handle._dbenv = Some(CACHE_DIR)
            /\ UNCHANGED proc
            /\ Commit(r.e)
            /\ mediafs' = r.fs
            /\ UNCHANGED run
            /\ last' = [op |-> "remove_processed", suite |-> suite,
                        ret |-> r.ret,
                        removed |-> DOMAIN pkgdb \ DOMAIN r.e.packages]

NextProcessed ==
    \/ \E pkgid \in ScanPkgIds : SetComponents(pkgid, <<CPT_1>>)
    \/ SetComponents(PKG_A1, <<CPT_IGN_H>>)
    \/ SetPackageIgnore(PKG_A2)
    \/ \E pkgid \in PkgIds : AddPackageToSuite(pkgid, <<115>>)
    \/ StoreIcon(<<109>>, GID1)
    \/ \E suite \in {None, Some(PkgList)} : RemoveProcessed(suite)

SpecProcessed == Init /\ [][NextProcessed]_vars

\* The records of a package in the three package tables.
pkg_records(e, pkid) ==
    <<Get(e.packages, tobytes(pkid)), Get(e.hints, tobytes(pkid)),
      Get(e.suites, tobytes(pkid))>>

C37_ExistsIffDocument ==
    \A gid \in Gids :
        metadata_exists(Env, gid) <=> get_metadata(Env, gid) # None

\* C38: while a get_info sequence is partly consumed the writer lock is
\* free, so that a write transaction can begin.
C38_ReadersTakeNoLock ==
    driver.gen # None => driver.lock = None

====
